---- MODULE Spec2Model ----
(***************************************************************************)
(* Per-pixel collision detection on packed 1-bit opacity masks:            *)
(*   - check_collision            (src/collision.rs)                       *)
(*   - generate_mask / set_texture (src/animated_image.rs,                 *)
(*                                  src/image_button.rs)                   *)
(*   - AnimatedImage              (src/animated_image.rs)                  *)
(*   - ImageObject, ImageButton   (src/images_obj.rs, src/image_button.rs) *)
(*                                                                         *)
(* Screen coordinates (f32 in the source) are fixed-point numbers counted  *)
(* in units of 1/Scale pixel, so sub-pixel positions and sizes exist and   *)
(* `as usize` truncation is a real operation.  Times (f32 and f64 seconds   *)
(* in the source) are whole numbers of 2^-33 s.  Arithmetic the source     *)
(* does in f32 is rounded to 24 significant bits after every operation.    *)
(***************************************************************************)
EXTENDS Integers, Sequences, FiniteSets, TLC

VARIABLES
    call,      \* the last check_collision call: its arguments and its result
    par,       \* the native (rayon) fine phase in flight
    gen,       \* the last generate_mask call: its image and its result
    anim,      \* the AnimatedImage object
    clock,     \* macroquad get_time(), in ticks
    object,    \* the ImageObject
    button,    \* the ImageButton
    clicked,   \* the last ImageButton::click call: its inputs and its result
    list,      \* the ListView
    pending,   \* the ImageButton::set_image call in flight
    other      \* a second AnimatedImage, the one `anim` is tested against

vars == <<call, par, gen, anim, clock, object, button, clicked, list, pending, other>>

\* Option<T>: None is the empty sequence, Some(v) the one-element sequence.
None == <<>>
Some(v) == <<v>>
IsNone(o) == o = <<>>
IsSome(o) == o # <<>>
Unwrap(o) == o[1]

\* set_image is an async fn that changes the button in two parts with an
\* await between them.  `pending` is where its future stands: no call, the
\* first part done and the hover file (None when it cannot be loaded) still
\* to load, or a panic.  The future borrows the button mutably, so nothing
\* else touches the button until the future completes or is dropped.
NoCall == [pc |-> "idle", hover |-> None]
AwaitingHover(hover_file) == [pc |-> "hover", hover |-> hover_file]
Panicked == [pc |-> "panicked", hover |-> None]

Scale     == 2   \* sub-pixel units per screen pixel
MaxPos    == 3   \* sprite b's position ranges over 0..MaxPos units per axis
MaxSize   == 4   \* sprite b's display size ranges over 0..MaxSize units per axis
MaxStride == 2   \* skip_pixels ranges over 1..MaxStride

Max(x, y) == IF x >= y THEN x ELSE y
Min(x, y) == IF x <= y THEN x ELSE y

\* 2^n for n in 0..30
Pow2(n) ==
    <<1, 2, 4, 8, 16, 32, 64, 128, 256, 512, 1024, 2048, 4096, 8192, 16384,
      32768, 65536, 131072, 262144, 524288, 1048576, 2097152, 4194304,
      8388608, 16777216, 33554432, 67108864, 134217728, 268435456,
      536870912, 1073741824>>[n + 1]

\* (byte >> (7 - (idx % 8))) & 1 on mask[idx / 8]; Sequences are 1-based.
MaskBit(mask, idx) == (mask[(idx \div 8) + 1] \div Pow2(7 - (idx % 8))) % 2

\* vec![0; (width * height + 7) / 8]
MaskLen(width, height) == (width * height + 7) \div 8

\* `(numer / denom) as usize`: a float-to-usize cast truncates toward zero and
\* saturates negative values to 0.
AsUsize(numer, denom) == IF numer < 0 THEN 0 ELSE numer \div denom

(***************************************************************************)
(* f32 arithmetic.  A positive f32 is <<m, s>>, standing for m / 2^s with  *)
(* m <= 2^24 (24 significant bits); zero is <<0, 0>>.  Every operation     *)
(* rounds its exact result to the nearest such number, ties to the even    *)
(* mantissa, as IEEE 754 does.  Quotients are taken of numbers below 128   *)
(* and products stay below 2^31 before rounding, so that every             *)
(* intermediate integer fits 31 bits.                                      *)
(***************************************************************************)

\* floor(log2(n)) for n >= 1
RECURSIVE ILog2(_)
ILog2(n) == IF n < 2 THEN 0 ELSE 1 + ILog2(n \div 2)

\* numer / denom rounded to an integer, ties to even.
RoundHalfEven(numer, denom) ==
    LET q == numer \div denom
        r == numer % denom
    IN  IF 2 * r > denom \/ (2 * r = denom /\ q % 2 = 1) THEN q + 1 ELSE q

\* The number of low bits p has beyond 24 significant ones, counted from k
\* (p < 2^31).
RECURSIVE BitsOver24(_, _)
BitsOver24(p, k) == IF k >= 7 \/ p <= Pow2(24 + k) THEN k ELSE BitsOver24(p, k + 1)

\* Binary long division: q and r are the quotient and the remainder of
\* n * 2^s by d.  Bits are added until q has 24 of them, and the last one is
\* rounded on the remainder, ties to even.
RECURSIVE F32DivSteps(_, _, _, _)
F32DivSteps(q, r, d, s) ==
    IF q >= Pow2(23)
    THEN <<IF 2 * r > d \/ (2 * r = d /\ q % 2 = 1) THEN q + 1 ELSE q, s>>
    ELSE IF 2 * r >= d
         THEN F32DivSteps(2 * q + 1, 2 * r - d, d, s + 1)
         ELSE F32DivSteps(2 * q, 2 * r, d, s + 1)

\* The f32 quotient n / d of two f32 values in the ratio n : d (n >= 0,
\* d > 0, n / d < 2^24); small operands are divided in one step.
F32Div(n, d) ==
    IF n = 0 THEN <<0, 0>>
    ELSE IF n < 128 /\ d < 128
    THEN LET s0 == 23 - (ILog2(n) - ILog2(d))
             s  == IF n * Pow2(s0) >= d * Pow2(23) THEN s0 ELSE s0 + 1
         IN  <<RoundHalfEven(n * Pow2(s), d), s>>
    ELSE F32DivSteps(n \div d, n % d, d, 0)

\* (a * t) as usize for the f32 a = <<m, s>> and the whole number t: the
\* product is rounded to f32, the cast truncates.
F32MulAsUsize(a, t) ==
    LET p  == a[1] * t
        sh == BitsOver24(p, 0)
    IN  IF sh = 0
        THEN p \div Pow2(a[2])
        ELSE (RoundHalfEven(p, Pow2(sh)) * Pow2(sh)) \div Pow2(a[2])

\* +infinity: what f32 gives for a positive number divided by zero.
F32Inf == <<1, -128>>

\* The same f32 written with the smallest mantissa: a whole number n is
\* <<n, 0>>, one and a half is <<3, 1>>.
RECURSIVE F32Reduce(_)
F32Reduce(a) ==
    IF a[2] > 0 /\ a[1] % 2 = 0 THEN F32Reduce(<<a[1] \div 2, a[2] - 1>>) ELSE a

\* n as f32 / d as f32 for whole numbers n > 0 and d >= 0.
F32Quot(n, d) == IF d = 0 THEN F32Inf ELSE F32Reduce(F32Div(n, d))

\* k as f32 * a for a whole number k and a finite f32 a.
F32Times(k, a) ==
    LET p  == k * a[1]
        sh == BitsOver24(p, 0)
    IN  IF sh = 0
        THEN F32Reduce(<<p, a[2]>>)
        ELSE F32Reduce(<<RoundHalfEven(p, Pow2(sh)), a[2] - sh>>)

\* a as usize for a finite f32 a >= 0.
F32AsUsize(a) == IF a[2] > 30 THEN 0 ELSE a[1] \div Pow2(a[2])

\* usize::MAX, what a cast of +infinity saturates to, cut to the widest
\* integer at hand.
UsizeMax == Pow2(30) + (Pow2(30) - 1)

\* A whole number of units (2^-33 s, 2^-27 of a zoom step, 2^-20 pixel) as
\* f32: n rounded to 24 significant bits.  Sums, differences and products of
\* such numbers are formed exactly and then rounded, which is what f32
\* addition, subtraction and multiplication do.
Round24(n) ==
    LET abs == IF n < 0 THEN 0 - n ELSE n
        sh  == BitsOver24(abs, 0)
        r   == RoundHalfEven(abs, Pow2(sh)) * Pow2(sh)
    IN  IF sh = 0 THEN n ELSE IF n < 0 THEN 0 - r ELSE r

\* numer / denom as f32, for a quotient of at least 2^23: the exact quotient
\* rounded to 24 significant bits.
Round24Quot(numer, denom) ==
    LET sh == BitsOver24((numer \div denom) + 1, 0)
    IN  RoundHalfEven(numer, denom * Pow2(sh)) * Pow2(sh)

(***************************************************************************)
(* check_collision                                                         *)
(***************************************************************************)

\* The overlap rectangle, in units.
Overlap(obj1, obj2) ==
    LET overlap_x == Max(obj1.pos[1], obj2.pos[1])
        overlap_y == Max(obj1.pos[2], obj2.pos[2])
    IN  [x |-> overlap_x,
         y |-> overlap_y,
         w |-> Min(obj1.pos[1] + obj1.size[1], obj2.pos[1] + obj2.size[1]) - overlap_x,
         h |-> Min(obj1.pos[2] + obj1.size[2], obj2.pos[2] + obj2.size[2]) - overlap_y]

\* Mutant of TexCoord: the quotient is rounded to the nearest texel instead
\* of truncated.
TexCoordNearest(overlap, x, pos, size, texture_size) ==
    AsUsize(2 * (overlap + x * Scale - pos) * texture_size + size, 2 * size)

\* ((overlap + x as f32 - pos) / size * texture_size) as usize, one axis.
\* x is a whole-pixel offset, so it weighs Scale units.  The quotient and
\* the product are each rounded to f32 before the cast.
TexCoord(overlap, x, pos, size, texture_size) ==
    IF overlap + x * Scale - pos < 0
    THEN 0
    ELSE F32MulAsUsize(F32Div(overlap + x * Scale - pos, size), texture_size)

\* idx = ty * texture_size.x as usize + tx
MaskIndex(obj, ov, x, y) ==
    LET tx == TexCoord(ov.x, x, obj.pos[1], obj.size[1], obj.texture_size[1])
        ty == TexCoord(ov.y, y, obj.pos[2], obj.size[2], obj.texture_size[2])
    IN  ty * obj.texture_size[1] + tx

\* Mutant of SampleAt: only the first sprite's bit is looked at.
SampleAtFirstOnly(obj1, obj2, ov, x, y) ==
    LET idx1 == MaskIndex(obj1, ov, x, y)
        mask1 == Unwrap(obj1.mask)
    IN  IF idx1 \div 8 >= Len(mask1)
        THEN [hit |-> FALSE, panic |-> TRUE]
        ELSE [hit |-> MaskBit(mask1, idx1) = 1, panic |-> FALSE]

\* The body of the inner loop at sample (x, y): an indexing `mask[idx / 8]`
\* past the end of the Vec panics; otherwise the sample hits when both bits
\* are 1.
SampleAt(obj1, obj2, ov, x, y) ==
    LET idx1 == MaskIndex(obj1, ov, x, y)
        idx2 == MaskIndex(obj2, ov, x, y)
        mask1 == Unwrap(obj1.mask)
        mask2 == Unwrap(obj2.mask)
    IN  IF idx1 \div 8 >= Len(mask1) \/ idx2 \div 8 >= Len(mask2)
        THEN [hit |-> FALSE, panic |-> TRUE]
        ELSE [hit |-> MaskBit(mask1, idx1) = 1 /\ MaskBit(mask2, idx2) = 1,
              panic |-> FALSE]

\* for x in (0..overlap_w as usize).step_by(skip_pixels), from x on,
\* returning at the first hit (or panic).
RECURSIVE ScanCols(_, _, _, _, _, _)
ScanCols(obj1, obj2, ov, skip_pixels, y, x) ==
    IF x >= AsUsize(ov.w, Scale)
    THEN [hit |-> FALSE, panic |-> FALSE]
    ELSE LET r == SampleAt(obj1, obj2, ov, x, y)
         IN  IF r.panic \/ r.hit
             THEN r
             ELSE ScanCols(obj1, obj2, ov, skip_pixels, y, x + skip_pixels)

\* Mutant of ScanRows: only the row it is entered at is scanned.
ScanRowsFirstOnly(obj1, obj2, ov, skip_pixels, y) ==
    IF y >= AsUsize(ov.h, Scale)
    THEN [hit |-> FALSE, panic |-> FALSE]
    ELSE ScanCols(obj1, obj2, ov, skip_pixels, y, 0)

\* for y in (0..overlap_h as usize).step_by(skip_pixels), from y on.
RECURSIVE ScanRows(_, _, _, _, _)
ScanRows(obj1, obj2, ov, skip_pixels, y) ==
    IF y >= AsUsize(ov.h, Scale)
    THEN [hit |-> FALSE, panic |-> FALSE]
    ELSE LET r == ScanCols(obj1, obj2, ov, skip_pixels, y, 0)
         IN  IF r.panic \/ r.hit
             THEN r
             ELSE ScanRows(obj1, obj2, ov, skip_pixels, y + skip_pixels)

\* Mutant of CheckCollision: the bounding-box fallback answers true without
\* looking at the overlap.
CheckCollisionNoBox(obj1, obj2, skip_pixels) ==
    LET ov == Overlap(obj1, obj2)
    IN  IF IsNone(obj1.mask) \/ IsNone(obj2.mask)
        THEN [hit |-> TRUE, panic |-> FALSE]
        ELSE IF ov.w <= 0 \/ ov.h <= 0
             THEN [hit |-> FALSE, panic |-> FALSE]
             ELSE ScanRows(obj1, obj2, ov, skip_pixels, 0)

\* Mutant of CheckCollision: the fallback is taken only when both masks are
\* missing; a single missing mask counts as fully transparent.
CheckCollisionBothNone(obj1, obj2, skip_pixels) ==
    LET ov == Overlap(obj1, obj2)
    IN  IF IsNone(obj1.mask) /\ IsNone(obj2.mask)
        THEN [hit |-> ov.w > 0 /\ ov.h > 0, panic |-> FALSE]
        ELSE IF ov.w <= 0 \/ ov.h <= 0 \/ IsNone(obj1.mask) \/ IsNone(obj2.mask)
             THEN [hit |-> FALSE, panic |-> FALSE]
             ELSE ScanRows(obj1, obj2, ov, skip_pixels, 0)

\* Mutant of CheckCollision: the bounding-box fallback counts touching
\* rectangles (overlap >= 0) as overlapping.
CheckCollisionTouching(obj1, obj2, skip_pixels) ==
    LET ov == Overlap(obj1, obj2)
    IN  IF IsNone(obj1.mask) \/ IsNone(obj2.mask)
        THEN [hit |-> ov.w >= 0 /\ ov.h >= 0, panic |-> FALSE]
        ELSE IF ov.w <= 0 \/ ov.h <= 0
             THEN [hit |-> FALSE, panic |-> FALSE]
             ELSE ScanRows(obj1, obj2, ov, skip_pixels, 0)

\* check_collision, sequential build (wasm32).
CheckCollision(obj1, obj2, skip_pixels) ==
    LET ov == Overlap(obj1, obj2)
    IN  IF IsNone(obj1.mask) \/ IsNone(obj2.mask)
        THEN [hit |-> ov.w > 0 /\ ov.h > 0, panic |-> FALSE]
        ELSE IF ov.w <= 0 \/ ov.h <= 0
             THEN [hit |-> FALSE, panic |-> FALSE]
             ELSE ScanRows(obj1, obj2, ov, skip_pixels, 0)

\* Mutant of Samples: the ranges stop one short (0..overlap - 1).
SamplesOneShort(ov, skip_pixels) ==
    {<<x, y>> : x \in {o \in 0..(AsUsize(ov.w, Scale) - 2) : o % skip_pixels = 0},
                y \in {o \in 0..(AsUsize(ov.h, Scale) - 2) : o % skip_pixels = 0}}

\* Every (x, y) the two step_by ranges produce.
Samples(ov, skip_pixels) ==
    {<<x, y>> : x \in {o \in 0..(AsUsize(ov.w, Scale) - 1) : o % skip_pixels = 0},
                y \in {o \in 0..(AsUsize(ov.h, Scale) - 1) : o % skip_pixels = 0}}

\* Mutant of CheckCollisionNative: `any` answers with the first sample a
\* worker finishes, whatever it found.
CheckCollisionNativeFirstDone(obj1, obj2, skip_pixels) ==
    LET ov == Overlap(obj1, obj2)
    IN  IF IsNone(obj1.mask) \/ IsNone(obj2.mask)
        THEN {[hit |-> ov.w > 0 /\ ov.h > 0, panic |-> FALSE]}
        ELSE IF ov.w <= 0 \/ ov.h <= 0 \/ Samples(ov, skip_pixels) = {}
             THEN {[hit |-> FALSE, panic |-> FALSE]}
             ELSE {SampleAt(obj1, obj2, ov, s[1], s[2]) : s \in Samples(ov, skip_pixels)}

\* check_collision, native build (rayon): the outcomes of one call over all
\* the orders the workers can take the samples in.  The call returns true
\* when a worker finds a hit before any worker has panicked, panics when a
\* worker indexes a mask past its end before the call has returned, and
\* returns false when every sample was taken and none hit or panicked.
CheckCollisionNative(obj1, obj2, skip_pixels) ==
    LET ov == Overlap(obj1, obj2)
        rs == {SampleAt(obj1, obj2, ov, s[1], s[2]) : s \in Samples(ov, skip_pixels)}
    IN  IF IsNone(obj1.mask) \/ IsNone(obj2.mask)
        THEN {[hit |-> ov.w > 0 /\ ov.h > 0, panic |-> FALSE]}
        ELSE IF ov.w <= 0 \/ ov.h <= 0
             THEN {[hit |-> FALSE, panic |-> FALSE]}
             ELSE {[hit |-> TRUE, panic |-> FALSE] : r \in {r \in rs : r.hit}}
                  \cup {[hit |-> FALSE, panic |-> TRUE] : r \in {r \in rs : r.panic}}
                  \cup {[hit |-> FALSE, panic |-> FALSE] :
                            r \in {r \in {0} : \A q \in rs : ~q.hit /\ ~q.panic}}

\* The outcomes of check_collision over both builds.
CheckCollisionOutcomes(obj1, obj2, skip_pixels) ==
    {CheckCollision(obj1, obj2, skip_pixels)} \cup CheckCollisionNative(obj1, obj2, skip_pixels)

(***************************************************************************)
(* The sprites handed to check_collision.  A Collidable is what the trait  *)
(* exposes: pos(), size(), texture_size(), get_mask().                     *)
(***************************************************************************)

RECURSIVE SumBits(_, _, _)
\* The byte whose bit 7 - j is set for every j in 0..7 with base + j in the set.
SumBits(opaque, base, j) ==
    IF j > 7 THEN 0
    ELSE (IF (base + j) \in opaque THEN Pow2(7 - j) ELSE 0) + SumBits(opaque, base, j + 1)

\* The packed mask of a width x height texture whose opaque pixels are the
\* row-major indices in `opaque`.
PackMask(opaque, width, height) ==
    [k \in 1..MaskLen(width, height) |-> SumBits(opaque, 8 * (k - 1), 0)]

\* Every mask a width x height texture can have, and no mask at all.
MaskOptions(width, height) ==
    {None} \cup {Some(PackMask(opaque, width, height)) :
                     opaque \in SUBSET (0..(width * height - 1))}

TexDimsA == {<<1, 1>>, <<2, 2>>}
TexDimsB == {<<1, 1>>, <<2, 1>>, <<1, 2>>}
PosA     == {<<2, 2>>}
SizesA   == {<<4, 4>>, <<3, 2>>}

Sprite(pos, size, tex, mask) ==
    [pos |-> pos, size |-> size, texture_size |-> tex, mask |-> mask]

SpritesA ==
    UNION {{Sprite(pos, size, tex, mask) : pos \in PosA, size \in SizesA,
                                           mask \in MaskOptions(tex[1], tex[2])} :
           tex \in TexDimsA}

SpritesB ==
    UNION {{Sprite(pos, size, tex, mask) :
                pos \in (0..MaxPos) \X (0..MaxPos),
                size \in (0..MaxSize) \X (0..MaxSize),
                mask \in MaskOptions(tex[1], tex[2])} :
           tex \in TexDimsB}

Idle == /\ call = None
        /\ par = None
        /\ gen = None
        /\ anim = None
        /\ clock = 0
        /\ object = None
        /\ button = None
        /\ clicked = None
        /\ list = None
        /\ pending = NoCall /\ other = None

\* let collision = check_collision(&img1, &img2, skip_pixels);
Collide ==
    /\ IsNone(call)
    /\ \E obj1 \in SpritesA, obj2 \in SpritesB, skip_pixels \in 1..MaxStride :
          call' = Some([obj1 |-> obj1, obj2 |-> obj2, skip_pixels |-> skip_pixels,
                        result |-> CheckCollision(obj1, obj2, skip_pixels)])
    /\ UNCHANGED <<par, gen, anim, clock, object, button, clicked, list, pending, other>>

\* 4x4 textures shown at their own size (4 pixels a side) on whole-pixel
\* positions, each opaque at a single texel.  Sprite a sits at pixel (3, 3),
\* sprite b at a whole-pixel offset from it.
ExactTex     == <<4, 4>>
ExactOffsets == (-3)..3

SingleTexelMasks ==
    {Some(PackMask({i}, ExactTex[1], ExactTex[2])) : i \in 0..(ExactTex[1] * ExactTex[2] - 1)}

ExactSprite(px, py, mask) ==
    Sprite(<<px * Scale, py * Scale>>, <<ExactTex[1] * Scale, ExactTex[2] * Scale>>,
           ExactTex, mask)

\* check_collision on two such sprites.
CollideExact ==
    /\ IsNone(call)
    /\ \E dx \in ExactOffsets, dy \in ExactOffsets, mask1 \in SingleTexelMasks,
          mask2 \in SingleTexelMasks, skip_pixels \in 1..MaxStride :
          LET obj1 == ExactSprite(3, 3, mask1)
              obj2 == ExactSprite(3 + dx, 3 + dy, mask2)
          IN  call' = Some([obj1 |-> obj1, obj2 |-> obj2, skip_pixels |-> skip_pixels,
                            result |-> CheckCollision(obj1, obj2, skip_pixels)])
    /\ UNCHANGED <<par, gen, anim, clock, object, button, clicked, list, pending, other>>

\* A 22x1 texture shown at its own size, 22 pixels by 1, opaque at a single
\* texel: 13 / 22 * 22 is 12.999999 in f32, one of the offsets whose quotient
\* and product do not round back to the whole number.
FloatTex == <<22, 1>>

FloatSprite(texel) ==
    Sprite(<<0, 0>>, <<FloatTex[1] * Scale, FloatTex[2] * Scale>>, FloatTex,
           Some(PackMask({texel}, FloatTex[1], FloatTex[2])))

\* check_collision on two such sprites, one on top of the other.
CollideFloat ==
    /\ IsNone(call)
    /\ \E texel1 \in 0..(FloatTex[1] - 1), texel2 \in 0..(FloatTex[1] - 1),
          skip_pixels \in 1..MaxStride :
          LET obj1 == FloatSprite(texel1)
              obj2 == FloatSprite(texel2)
          IN  call' = Some([obj1 |-> obj1, obj2 |-> obj2, skip_pixels |-> skip_pixels,
                            result |-> CheckCollision(obj1, obj2, skip_pixels)])
    /\ UNCHANGED <<par, gen, anim, clock, object, button, clicked, list, pending, other>>

InitCollide == Idle
NextCollide == Collide \/ CollideExact \/ CollideFloat
SpecCollide == InitCollide /\ [][NextCollide]_vars

(***************************************************************************)
(* Collidable is a public trait: an implementor may hand out a mask that   *)
(* is shorter than its texture_size() calls for.                           *)
(***************************************************************************)

ShortTexDims == {<<1, 1>>, <<3, 3>>}

\* Masks one byte short of ceil(width * height / 8).
ShortMasks(width, height) ==
    {Some(m) : m \in [1..(MaskLen(width, height) - 1) -> {0, 255}]}

ShortMaskSprites ==
    UNION {{Sprite(pos, size, tex, mask) :
                pos \in (0..MaxPos) \X (0..MaxPos),
                size \in {<<3 * Scale, 3 * Scale>>, <<MaxSize, MaxSize>>},
                mask \in ShortMasks(tex[1], tex[2])} :
           tex \in ShortTexDims}

\* check_collision(&img1, &img2, skip_pixels) with such an implementor as
\* the second sprite, on either build: the sequential scan stops at the
\* first sample that hits or panics, the workers of the native build can
\* reach a later one first.
CollideShortMask ==
    /\ IsNone(call)
    /\ \E obj1 \in SpritesA, obj2 \in ShortMaskSprites, skip_pixels \in 1..MaxStride :
          \E result \in CheckCollisionOutcomes(obj1, obj2, skip_pixels) :
              call' = Some([obj1 |-> obj1, obj2 |-> obj2, skip_pixels |-> skip_pixels,
                            result |-> result])
    /\ UNCHANGED <<par, gen, anim, clock, object, button, clicked, list, pending, other>>

InitShortMask == Idle
NextShortMask == CollideShortMask
SpecShortMask == InitShortMask /\ [][NextShortMask]_vars

(***************************************************************************)
(* check_collision, native build: the fine phase runs on rayon's worker    *)
(* pool.  `(0..h).into_par_iter().step_by(s).any(|y| (0..w)...any(|x| ..))` *)
(* hands the samples to the workers in no fixed order; `any` raises a      *)
(* shared flag at the first true and returns once the flag is up or every  *)
(* sample has been consumed.  A worker that took its sample before the     *)
(* flag went up still finishes it.                                         *)
(***************************************************************************)

Finished(hit, panic) == Some([hit |-> hit, panic |-> panic])

\* Mutant of AnyMayReturn: `any` returns as soon as one worker is done.
AnyMayReturnEarly(p) == TRUE

\* When `any` may return: a worker raised the flag (or panicked), or no
\* sample is left.
AnyMayReturn(p) == p.found \/ p.panic \/ p.pending = {}

\* Lines 99..136 of the native build, then the samples are queued.
ParStart ==
    /\ IsNone(par)
    /\ \E obj1 \in SpritesA, obj2 \in SpritesB, skip_pixels \in 1..MaxStride :
          LET ov == Overlap(obj1, obj2)
              early == IsNone(obj1.mask) \/ IsNone(obj2.mask) \/ ov.w <= 0 \/ ov.h <= 0
          IN  par' = Some([obj1 |-> obj1, obj2 |-> obj2, skip_pixels |-> skip_pixels,
                           pending |-> IF early THEN {} ELSE Samples(ov, skip_pixels),
                           found |-> FALSE,
                           panic |-> FALSE,
                           result |-> IF IsNone(obj1.mask) \/ IsNone(obj2.mask)
                                      THEN Finished(ov.w > 0 /\ ov.h > 0, FALSE)
                                      ELSE IF ov.w <= 0 \/ ov.h <= 0
                                           THEN Finished(FALSE, FALSE)
                                           ELSE None])
    /\ UNCHANGED <<call, gen, anim, clock, object, button, clicked, list, pending, other>>

\* One worker evaluates the closure at one pending sample.
ParVisit ==
    /\ IsSome(par) /\ IsNone(Unwrap(par).result)
    /\ \E s \in Unwrap(par).pending :
          LET p == Unwrap(par)
              r == SampleAt(p.obj1, p.obj2, Overlap(p.obj1, p.obj2), s[1], s[2])
          IN  par' = Some([p EXCEPT !.pending = @ \ {s},
                                   !.found = @ \/ r.hit,
                                   !.panic = @ \/ r.panic])
    /\ UNCHANGED <<call, gen, anim, clock, object, button, clicked, list, pending, other>>

\* `any` returns to check_collision, which returns its value.
ParReturn ==
    /\ IsSome(par) /\ IsNone(Unwrap(par).result)
    /\ AnyMayReturn(Unwrap(par))
    /\ par' = Some([Unwrap(par) EXCEPT !.result = Finished(Unwrap(par).found, Unwrap(par).panic)])
    /\ UNCHANGED <<call, gen, anim, clock, object, button, clicked, list, pending, other>>

InitPar == Idle
NextPar == ParStart \/ ParVisit \/ ParReturn
SpecPar == InitPar /\ [][NextPar]_vars

(***************************************************************************)
(* generate_mask: the mask builder.  An image is what load_image returns:  *)
(* `bytes`, and the width and height generate_mask is called with (the     *)
(* texture's).  The result carries the number of pixel reads made and      *)
(* whether an indexing `pixels[idx + 3]` ran past the buffer (a panic).    *)
(***************************************************************************)

MaxDim == 2   \* test images are 1..MaxDim pixels wide and high

\* pixels[idx + 3] for idx = (y * width + x) * 4, with i = y * width + x.
Alpha(pixels, i) == pixels[(i * 4 + 3) + 1]

InBuffer(pixels, i) == i * 4 + 3 < Len(pixels)

\* Mutant of ScanTransparency: only a fully transparent pixel (alpha == 0)
\* counts as transparency.
RECURSIVE ScanTransparencyZeroOnly(_, _, _)
ScanTransparencyZeroOnly(pixels, n, i) ==
    IF i >= n THEN [has_transparency |-> FALSE, reads |-> i, panic |-> FALSE]
    ELSE IF ~InBuffer(pixels, i)
         THEN [has_transparency |-> FALSE, reads |-> i, panic |-> TRUE]
         ELSE IF Alpha(pixels, i) = 0
              THEN [has_transparency |-> TRUE, reads |-> i + 1, panic |-> FALSE]
              ELSE ScanTransparencyZeroOnly(pixels, n, i + 1)

\* The first pass: row-major over the n = width * height pixels from pixel
\* i on, breaking out of both loops at the first alpha < 255.
RECURSIVE ScanTransparency(_, _, _)
ScanTransparency(pixels, n, i) ==
    IF i >= n THEN [has_transparency |-> FALSE, reads |-> i, panic |-> FALSE]
    ELSE IF ~InBuffer(pixels, i)
         THEN [has_transparency |-> FALSE, reads |-> i, panic |-> TRUE]
         ELSE IF Alpha(pixels, i) < 255
              THEN [has_transparency |-> TRUE, reads |-> i + 1, panic |-> FALSE]
              ELSE ScanTransparency(pixels, n, i + 1)

\* Mutant of ByteOf: bits are packed least significant bit first.
RECURSIVE ByteOfLsbFirst(_, _, _, _)
ByteOfLsbFirst(pixels, n, base, bit_offset) ==
    IF bit_offset > 7 \/ base + bit_offset >= n THEN 0
    ELSE (IF Alpha(pixels, base + bit_offset) > 0 THEN Pow2(bit_offset) ELSE 0)
         + ByteOfLsbFirst(pixels, n, base, bit_offset + 1)

\* One byte of the mask after the second pass: starting from 0, bit
\* 7 - bit_offset is set for every pixel i = base + bit_offset < n with
\* alpha > 0 (mask[i / 8] |= 1 << (7 - i % 8)).
RECURSIVE ByteOf(_, _, _, _)
ByteOf(pixels, n, base, bit_offset) ==
    IF bit_offset > 7 \/ base + bit_offset >= n THEN 0
    ELSE (IF Alpha(pixels, base + bit_offset) > 0 THEN Pow2(7 - bit_offset) ELSE 0)
         + ByteOf(pixels, n, base, bit_offset + 1)

\* The second pass over vec![0; (width * height + 7) / 8].
BuildMask(pixels, width, height) ==
    [k \in 1..MaskLen(width, height) |-> ByteOf(pixels, width * height, 8 * (k - 1), 0)]

MaskResult(mask, reads, panic) == [mask |-> mask, reads |-> reads, panic |-> panic]

\* The passes after the length check.
ScanAndBuild(pixels, width, height) ==
    LET n == width * height
        scan == ScanTransparency(pixels, n, 0)
    IN  IF scan.panic THEN MaskResult(None, scan.reads, TRUE)
        ELSE IF ~scan.has_transparency THEN MaskResult(None, scan.reads, FALSE)
        ELSE IF n * 4 > Len(pixels)
             \* the second pass reads the Len(pixels) \div 4 pixels that lie in
             \* the buffer before pixels[idx + 3] runs past its end
             THEN MaskResult(None, scan.reads + Len(pixels) \div 4, TRUE)
        ELSE MaskResult(Some(BuildMask(pixels, width, height)), scan.reads + n, FALSE)

\* Mutant of GenerateMask: the length check is missing.
GenerateMaskUnchecked(pixels, width, height) == ScanAndBuild(pixels, width, height)

\* Mutant of GenerateMask: a mask without a single 1 bit is dropped.
GenerateMaskDropEmpty(pixels, width, height) ==
    LET r == ScanAndBuild(pixels, width, height)
    IN  IF Len(pixels) # width * height * 4 THEN MaskResult(None, 0, FALSE)
        ELSE IF IsSome(r.mask) /\ \A k \in 1..Len(Unwrap(r.mask)) : Unwrap(r.mask)[k] = 0
             THEN MaskResult(None, r.reads, FALSE)
             ELSE r

\* generate_mask of animated_image.rs.
GenerateMask(pixels, width, height) ==
    IF Len(pixels) # width * height * 4
    THEN MaskResult(None, 0, FALSE)
    ELSE ScanAndBuild(pixels, width, height)

\* generate_mask of image_button.rs: the same two passes (its second pass
\* has no else branch clearing the bit, which the zeroed Vec makes moot).
ButtonGenerateMask(pixels, width, height) ==
    LET n == width * height
        scan == ScanTransparency(pixels, n, 0)
    IN  IF Len(pixels) # n * 4 THEN MaskResult(None, 0, FALSE)
        ELSE IF scan.panic THEN MaskResult(None, scan.reads, TRUE)
        ELSE IF ~scan.has_transparency THEN MaskResult(None, scan.reads, FALSE)
        ELSE MaskResult(Some(BuildMask(pixels, width, height)), scan.reads + n, FALSE)

\* --- the images the builder is run on ---

AlphaVals == {0, 1, 255}
CheckerDims == {1, 2, 7, 16, 33}

\* An RGBA8 buffer with the given alpha per pixel (alphas is 1-based,
\* row-major); colour bytes are 0.
RgbaBytes(alphas) ==
    [b \in 1..(4 * Len(alphas)) |-> IF b % 4 = 0 THEN alphas[b \div 4] ELSE 0]

Image(width, height, bytes) == [width |-> width, height |-> height, bytes |-> bytes]

RgbaImages ==
    UNION {{Image(w, h, RgbaBytes(alphas)) : alphas \in [1..(w * h) -> AlphaVals]} :
           <<w, h>> \in (1..MaxDim) \X (1..MaxDim)}

\* Buffers without an alpha channel, three bytes per pixel.
RgbImages ==
    {Image(w, h, [b \in 1..(3 * w * h) |-> 255]) : w \in 1..MaxDim, h \in 1..MaxDim}

\* Pixel (x, y) has alpha 255 when x + y is even, else 0.
Checkerboard(w, h) ==
    Image(w, h, RgbaBytes([i \in 1..(w * h) |->
                    IF (((i - 1) % w) + ((i - 1) \div w)) % 2 = 0 THEN 255 ELSE 0]))

Checkerboards == {Checkerboard(w, h) : w \in CheckerDims, h \in CheckerDims}

TestImages == RgbaImages \cup RgbImages \cup Checkerboards

\* generate_mask(texture_path, tex_width, tex_height) of animated_image.rs
AnimGenerateMaskCall ==
    /\ IsNone(gen)
    /\ \E image \in TestImages :
          gen' = Some([builder |-> "animated_image", image |-> image,
                       out |-> GenerateMask(image.bytes, image.width, image.height)])
    /\ UNCHANGED <<call, par, anim, clock, object, button, clicked, list, pending, other>>

\* generate_mask(texture_path, tex_width, tex_height) of image_button.rs
ButtonGenerateMaskCall ==
    /\ IsNone(gen)
    /\ \E image \in TestImages :
          gen' = Some([builder |-> "image_button", image |-> image,
                       out |-> ButtonGenerateMask(image.bytes, image.width, image.height)])
    /\ UNCHANGED <<call, par, anim, clock, object, button, clicked, list, pending, other>>

InitMask == Idle
NextMask == AnimGenerateMaskCall \/ ButtonGenerateMaskCall
SpecMask == InitMask /\ [][NextMask]_vars

(***************************************************************************)
(* AnimatedImage.  Times are whole numbers of 2^-33 s: get_time() (f64)    *)
(* exactly, the f32 fields last_update, time_accumulated, frame_duration   *)
(* and frame_durations rounded to 24 significant bits.  frame_width and    *)
(* frame_height are f32 values <<m, s>>.  `texture` is the decoded atlas   *)
(* the Texture2D was made from.  `ctor` and `frames` are history: which    *)
(* constructor built the object and the source frames it was given.        *)
(* Positions and display sizes are in units, the angle in whole radians.   *)
(***************************************************************************)

MaxFrames == 2   \* a sprite has at most MaxFrames frames
MaxTime   == 4   \* get_time() ranges over 0..MaxTime ticks

\* get_time() is read at whole multiples of 2^-7 s (7.8125 ms); `clock`
\* counts them.
TickSec == Pow2(26)
Now == clock * TickSec

DefaultFrameDuration == 858993472   \* 0.1f32 = 13421773 / 2^27 s
MinFrameDuration == 8589935         \* 0.001f32 = 8589935 / 2^33 s

\* frame.delay as f32 / 100.0 (hundredths of a second), and 0.1 when the
\* quotient is not positive; delay <= 24.
DelaySec(delay) ==
    IF delay > 0
    THEN F32Div(delay, 100)[1] * Pow2(33 - F32Div(delay, 100)[2])
    ELSE DefaultFrameDuration

FrameDims == {<<1, 1>>, <<2, 1>>, <<1, 2>>}   \* <<width, height>> of one frame
Durations == {TickSec, DelaySec(2)}     \* frame durations a caller passes: 2^-7 s, 0.02f32
FrameAlphaVals == {0, 255}

\* Frames of more than 8 pixels, so that a frame's mask and the atlas's mask
\* differ in length; such frames are taken of one alpha throughout.
WideDims == {<<3, 3>>}

\* Every frame image of the given size (for a wide size: every uniform one).
FrameImages(dim) ==
    {Image(dim[1], dim[2], RgbaBytes(alphas)) :
        alphas \in IF dim \in WideDims
                   THEN {[i \in 1..(dim[1] * dim[2]) |-> v] : v \in FrameAlphaVals}
                   ELSE [1..(dim[1] * dim[2]) -> FrameAlphaVals]}

\* Whether frame i, copied at x_offset (i - 1) * frame_width over its own
\* width and height, writes pixel (x, y) of the sheet.
CoversPixel(frames, frame_width, i, x, y) ==
    /\ x >= (i - 1) * frame_width
    /\ x < (i - 1) * frame_width + frames[i].width
    /\ y < frames[i].height

\* set_pixel asserts x < width and y < height of the sheet, which was sized
\* from the first frame: a frame reaching beyond it makes the copy panic.
CopyPanics(frames, frame_width, frame_height) ==
    \E i \in 1..Len(frames) :
        /\ frames[i].width > 0 /\ frames[i].height > 0
        /\ \/ (i - 1) * frame_width + frames[i].width > frame_width * Len(frames)
           \/ frames[i].height > frame_height

\* The frames copied into one image of frame_width * Len(frames) by
\* frame_height pixels that starts transparent black: frame i at x_offset
\* (i - 1) * frame_width, later frames over earlier ones, all four bytes of
\* a pixel (the u8 -> f32 -> u8 trip through Color returns every byte
\* unchanged).  Defined when the copy does not panic.
CombinedImage(frames, frame_width, frame_height) ==
    LET spritesheet_width == frame_width * Len(frames)
    IN  Image(spritesheet_width, frame_height,
              [b \in 1..(4 * spritesheet_width * frame_height) |->
                  LET dest_x == ((b - 1) \div 4) % spritesheet_width
                      y == ((b - 1) \div 4) \div spritesheet_width
                      over == {i \in 1..Len(frames) :
                                  CoversPixel(frames, frame_width, i, dest_x, y)}
                  IN  IF over = {} THEN 0
                      ELSE LET i == CHOOSE j \in over : \A k \in over : k <= j
                               x == dest_x - (i - 1) * frame_width
                           IN  frames[i].bytes[(y * frames[i].width + x) * 4
                                                   + ((b - 1) % 4) + 1]])

\* set_texture of animated_image.rs: the texture and generate_mask's result
\* for the same file.
SetTextureMask(image) == GenerateMask(image.bytes, image.width, image.height).mask

\* The mask "created manually" over the combined image: no all-opaque
\* shortcut, bit set when alpha > 0.
CombinedMask(image) == BuildMask(image.bytes, image.width, image.height)

\* AnimatedImage::new
AnimatedImageNew(sheet, x, y, width, height, cols, rows, frame_duration, loop_animation, now) ==
    [ctor |-> "new", frames |-> <<sheet>>,
     texture |-> sheet,
     x |-> x, y |-> y, width |-> width, height |-> height, angle |-> 0,
     transparency_mask |-> SetTextureMask(sheet),
     frame_masks |-> None,
     cols |-> cols, rows |-> rows,
     current_frame |-> 0,
     total_frames |-> cols * rows,
     frame_width |-> F32Quot(sheet.width, cols),
     frame_height |-> F32Quot(sheet.height, rows),
     frame_duration |-> frame_duration,
     frame_durations |-> None,
     time_accumulated |-> 0,
     state |-> "Playing",
     loop_animation |-> loop_animation,
     last_update |-> Round24(now)]

\* AnimatedImage::from_frames: the sprite, or None when the constructor
\* panics while copying the frames.
AnimatedImageFromFrames(frames, x, y, width, height, frame_duration, loop_animation, now) ==
    LET frame_width == frames[1].width
        frame_height == frames[1].height
        combined_image == CombinedImage(frames, frame_width, frame_height)
    IN  IF CopyPanics(frames, frame_width, frame_height)
        THEN None
        ELSE Some([ctor |-> "from_frames", frames |-> frames,
                   texture |-> combined_image,
                   x |-> x, y |-> y, width |-> width, height |-> height, angle |-> 0,
                   transparency_mask |-> Some(CombinedMask(combined_image)),
                   frame_masks |-> None,
                   cols |-> Len(frames), rows |-> 1,
                   current_frame |-> 0,
                   total_frames |-> Len(frames),
                   frame_width |-> <<frame_width, 0>>,
                   frame_height |-> <<frame_height, 0>>,
                   frame_duration |-> frame_duration,
                   frame_durations |-> None,
                   time_accumulated |-> 0,
                   state |-> "Playing",
                   loop_animation |-> loop_animation,
                   last_update |-> Round24(now)])

\* A GIF file: its logical screen size and its frames in file order, each
\* with the RGBA buffer it decodes to on the logical screen (`bytes`), its
\* delay field and whether a local or global palette exists for it.  `still`
\* is the image load_texture and load_image decode the same file to.
GifFrame(bytes, delay, palette) == [bytes |-> bytes, delay |-> delay, palette |-> palette]
Gif(width, height, frames, still) == [width |-> width, height |-> height, frames |-> frames, still |-> still]

\* The buffers of the frames that have a palette, in order (a frame without
\* one is skipped).
RECURSIVE DecodedFrames(_, _, _)
DecodedFrames(gif_frames, width, height) ==
    IF gif_frames = <<>> THEN <<>>
    ELSE IF Head(gif_frames).palette
         THEN <<Image(width, height, Head(gif_frames).bytes)>>
                  \o DecodedFrames(Tail(gif_frames), width, height)
         ELSE DecodedFrames(Tail(gif_frames), width, height)

\* process_gif_data: the delay of every frame read is pushed before the
\* frame may be skipped, so there can be more delays than frames.  None
\* when no frame was decoded.
ProcessGifData(gif) ==
    LET frames == DecodedFrames(gif.frames, gif.width, gif.height)
    IN  IF frames = <<>> THEN None
        ELSE Some([frames |-> frames,
                   delays |-> [i \in 1..Len(gif.frames) |-> DelaySec(gif.frames[i].delay)],
                   width |-> gif.width, height |-> gif.height])

\* from_gif's frame_masks: one mask per decoded frame, from the frame's own
\* RGBA buffer.
GifFrameMasks(frames, width_px, height_px) ==
    [i \in 1..Len(frames) |-> BuildMask(frames[i].bytes, width_px, height_px)]

\* delays.iter().sum::<f32>(): the delays added one by one in f32, from
\* total on.  GIF delays are at least 0.01 s, so they and their partial sums
\* are whole numbers of 2^-30 s, which is what the sum is counted in.
RECURSIVE SumSeq(_, _)
SumSeq(q, total) ==
    IF q = <<>> THEN total ELSE SumSeq(Tail(q), Round24(total + Head(q) \div 8))

\* delays.iter().sum::<f32>() / delays.len() as f32
MeanDelay(delays) == Round24Quot(SumSeq(delays, 0), Len(delays)) * 8

\* from_gif's strip for a GIF that process_gif_data decodes to more than
\* one frame: frames, delays, width_px and height_px are its results.
AnimatedImageFromGifFrames(frames, delays, x, y, width, height, loop_animation, now) ==
    LET width_px == frames[1].width
        height_px == frames[1].height
        combined_image == CombinedImage(frames, width_px, height_px)
    IN  [ctor |-> "from_gif", frames |-> frames,
         texture |-> combined_image,
         x |-> x, y |-> y, width |-> width, height |-> height, angle |-> 0,
         transparency_mask |-> Some(CombinedMask(combined_image)),
         frame_masks |-> Some(GifFrameMasks(frames, width_px, height_px)),
         cols |-> Len(frames), rows |-> 1,
         current_frame |-> 0,
         total_frames |-> Len(frames),
         frame_width |-> <<width_px, 0>>,
         frame_height |-> <<height_px, 0>>,
         frame_duration |-> IF delays # <<>> THEN MeanDelay(delays) ELSE DefaultFrameDuration,
         frame_durations |-> Some(delays),
         time_accumulated |-> 0,
         state |-> "Playing",
         loop_animation |-> loop_animation,
         last_update |-> Round24(now)]

\* AnimatedImage::from_gif on a file that load_file reads.  A GIF of one
\* decoded frame, and one process_gif_data gives up on, is handed to new()
\* as a 1 x 1 sheet with frame_duration 0.1.
AnimatedImageFromGif(gif, x, y, width, height, loop_animation, now) ==
    LET data == ProcessGifData(gif)
    IN  IF IsSome(data) /\ Len(Unwrap(data).frames) > 1
        THEN AnimatedImageFromGifFrames(Unwrap(data).frames, Unwrap(data).delays,
                                        x, y, width, height, loop_animation, now)
        ELSE [AnimatedImageNew(gif.still, x, y, width, height, 1, 1,
                               DefaultFrameDuration, loop_animation, now)
                 EXCEPT !.ctor = "from_gif"]

\* AnimatedImage::create_empty, from_gif's result when the file cannot be
\* loaded: one transparent 1x1 pixel, no mask, Stopped.
CreateEmpty(x, y, width, height) ==
    [ctor |-> "create_empty", frames |-> <<>>,
     texture |-> Image(1, 1, <<0, 0, 0, 0>>),
     x |-> x, y |-> y, width |-> width, height |-> height, angle |-> 0,
     transparency_mask |-> None,
     frame_masks |-> None,
     cols |-> 1, rows |-> 1,
     current_frame |-> 0,
     total_frames |-> 1,
     frame_width |-> <<1, 0>>,
     frame_height |-> <<1, 0>>,
     frame_duration |-> DefaultFrameDuration,
     frame_durations |-> None,
     time_accumulated |-> 0,
     state |-> "Stopped",
     loop_animation |-> FALSE,
     last_update |-> 0]

\* AnimatedImage::texture_size, both coordinates f32.
TextureSize(a) ==
    IF a.total_frames > 1
    THEN <<a.frame_width, a.frame_height>>
    ELSE <<<<a.texture.width, 0>>, <<a.texture.height, 0>>>>

\* AnimatedImage::get_mask
GetMask(a) ==
    IF IsSome(a.frame_masks) /\ a.total_frames > 1
          /\ a.current_frame < Len(Unwrap(a.frame_masks))
    THEN Some(Unwrap(a.frame_masks)[a.current_frame + 1])
    ELSE a.transparency_mask

\* AnimatedImage::get_current_frame_rect: the source rectangle of the
\* current frame in the atlas, every field f32 (cols > 0).
CurrentFrameRect(a) ==
    [x |-> F32Times(a.current_frame % a.cols, a.frame_width),
     y |-> F32Times(a.current_frame \div a.cols, a.frame_height),
     w |-> a.frame_width,
     h |-> a.frame_height]

\* The state draw() leaves behind at time `now`.
\* Mutant of DrawUpdate: a non-looping animation wraps like a looping one.
DrawUpdateAlwaysLoops(a, now) ==
    IF a.state = "Playing" /\ a.total_frames > 1
    THEN LET accumulated == Round24(a.time_accumulated + Round24(now - a.last_update))
             current_duration ==
                 IF IsSome(a.frame_durations)
                 THEN Unwrap(a.frame_durations)
                          [(a.current_frame % Len(Unwrap(a.frame_durations))) + 1]
                 ELSE a.frame_duration
         IN  IF accumulated >= current_duration
             THEN [a EXCEPT !.last_update = Round24(now),
                            !.time_accumulated = Round24(accumulated - current_duration),
                            !.current_frame = (a.current_frame + 1) % a.total_frames]
             ELSE [a EXCEPT !.last_update = Round24(now), !.time_accumulated = accumulated]
    ELSE a

\* delta_time = (current_time - last_update as f64) as f32: the f64
\* difference is exact.  last_update = current_time as f32, and the sum and
\* the difference on time_accumulated are f32 operations.
DrawUpdate(a, now) ==
    IF a.total_frames = 0 THEN a
    ELSE IF a.state = "Playing" /\ a.total_frames > 1
    THEN LET delta_time == Round24(now - a.last_update)
             accumulated == Round24(a.time_accumulated + delta_time)
             current_duration ==
                 IF IsSome(a.frame_durations)
                 THEN Unwrap(a.frame_durations)
                          [(a.current_frame % Len(Unwrap(a.frame_durations))) + 1]
                 ELSE a.frame_duration
             remaining == Round24(accumulated - current_duration)
         IN  IF accumulated >= current_duration
             THEN IF a.current_frame + 1 >= a.total_frames
                  THEN IF a.loop_animation
                       THEN [a EXCEPT !.last_update = Round24(now),
                                      !.time_accumulated = remaining,
                                      !.current_frame = 0]
                       ELSE [a EXCEPT !.last_update = Round24(now),
                                      !.time_accumulated = remaining,
                                      !.current_frame = a.total_frames - 1,
                                      !.state = "Stopped"]
                  ELSE [a EXCEPT !.last_update = Round24(now),
                                 !.time_accumulated = remaining,
                                 !.current_frame = a.current_frame + 1]
             ELSE [a EXCEPT !.last_update = Round24(now), !.time_accumulated = accumulated]
    ELSE a

\* Sheets for new(): cols x rows frames of one size, any alphas.
SheetLayouts == {l \in (1..MaxFrames) \X (1..MaxFrames) : l[1] * l[2] <= MaxFrames}

\* The alphas of a sheet whose cell (column, row) is uniformly cell_alpha[..].
UniformCells(layout, dim, cell_alpha) ==
    [k \in 1..(layout[1] * dim[1] * layout[2] * dim[2]) |->
        LET x == (k - 1) % (layout[1] * dim[1])
            y == (k - 1) \div (layout[1] * dim[1])
        IN  cell_alpha[(y \div dim[2]) * layout[1] + (x \div dim[1]) + 1]]

Sheets(layout, dim) ==
    {Image(layout[1] * dim[1], layout[2] * dim[2], RgbaBytes(alphas)) :
        alphas \in IF dim \in WideDims
                   THEN {UniformCells(layout, dim, cell_alpha) :
                            cell_alpha \in [1..(layout[1] * layout[2]) -> FrameAlphaVals]}
                   ELSE [1..(layout[1] * dim[1] * layout[2] * dim[2]) -> FrameAlphaVals]}

FrameLists(dim) ==
    UNION {[1..n -> FrameImages(dim)] : n \in 1..MaxFrames}

\* Sheets that do not divide into whole frames: 3 pixels in 2 columns.
OddSheets == {Image(3, 1, RgbaBytes(alphas)) : alphas \in {<<255, 255, 255>>, <<255, 0, 255>>}}

\* Frame files of unequal size, and a frame with colour.
OpaqueFrame(w, h) == Image(w, h, RgbaBytes([i \in 1..(w * h) |-> 255]))
MixedFrameLists ==
    {<<OpaqueFrame(1, 1), OpaqueFrame(2, 1)>>,
     <<OpaqueFrame(2, 1), OpaqueFrame(1, 1)>>,
     <<OpaqueFrame(1, 1), OpaqueFrame(1, 2)>>,
     <<Image(1, 1, <<7, 8, 9, 200>>), OpaqueFrame(1, 1)>>}

\* Where a sprite is constructed: <<x, y, width, height>>, in units.
StartPlaces == {<<0, 0, 2 * Scale, Scale>>}

New ==
    /\ IsNone(anim)
    /\ \E layout \in SheetLayouts, dim \in FrameDims \cup WideDims, frame_duration \in Durations,
          loop_animation \in BOOLEAN :
          \E sheet \in Sheets(layout, dim), at \in StartPlaces :
              anim' = Some(AnimatedImageNew(sheet, at[1], at[2], at[3], at[4],
                                            layout[1], layout[2], frame_duration,
                                            loop_animation, Now))
    /\ UNCHANGED <<call, par, gen, clock, object, button, clicked, list, pending, other>>

\* new() on a sheet of 3 pixels in 2 columns (frames one and a half pixels
\* wide), and on a sheet split into 0 columns.
NewOdd ==
    /\ IsNone(anim)
    /\ \E sheet \in OddSheets, cols \in {0, 2}, frame_duration \in Durations,
          loop_animation \in BOOLEAN, at \in StartPlaces :
          anim' = Some(AnimatedImageNew(sheet, at[1], at[2], at[3], at[4], cols, 1,
                                        frame_duration, loop_animation, Now))
    /\ UNCHANGED <<call, par, gen, clock, object, button, clicked, list, pending, other>>

\* A constructor that panics builds nothing.
FromFrames ==
    /\ IsNone(anim)
    /\ \E dim \in FrameDims \cup WideDims, frame_duration \in Durations, loop_animation \in BOOLEAN :
          \E frames \in FrameLists(dim) \cup MixedFrameLists, at \in StartPlaces :
              anim' = AnimatedImageFromFrames(frames, at[1], at[2], at[3], at[4],
                                              frame_duration, loop_animation, Now)
    /\ UNCHANGED <<call, par, gen, clock, object, button, clicked, list, pending, other>>

\* The delay fields of the GIFs: 1/100 s and 3/100 s, and 0 on a frame that
\* has no palette.
GifDelayFields == {1, 3}

\* The GIFs with the given frames: every frame with a palette, the delays
\* all equal or the first one different; with one more frame after the
\* first that has no palette and no delay; and with no palette at all.  As
\* a still image the file decodes to its first frame.
GifsOf(frames) ==
    {Gif(frames[1].width, frames[1].height,
         [i \in 1..Len(frames) |->
             GifFrame(frames[i].bytes, IF i = 1 THEN first ELSE 1, TRUE)],
         frames[1]) :
        first \in GifDelayFields}
    \cup {Gif(frames[1].width, frames[1].height,
              <<GifFrame(frames[1].bytes, 1, TRUE), GifFrame(frames[1].bytes, 0, FALSE)>>
                  \o [i \in 1..(Len(frames) - 1) |-> GifFrame(frames[i + 1].bytes, 3, TRUE)],
              frames[1])}
    \cup {Gif(frames[1].width, frames[1].height,
              [i \in 1..Len(frames) |-> GifFrame(frames[i].bytes, 1, FALSE)],
              frames[1])}

FromGif ==
    /\ IsNone(anim)
    /\ \E dim \in FrameDims \cup WideDims, loop_animation \in BOOLEAN :
          \E frames \in FrameLists(dim) :
              \E gif \in GifsOf(frames), at \in StartPlaces :
                  anim' = Some(AnimatedImageFromGif(gif, at[1], at[2], at[3], at[4],
                                                    loop_animation, Now))
    /\ UNCHANGED <<call, par, gen, clock, object, button, clicked, list, pending, other>>

\* from_gif on a file that cannot be loaded.
FromGifLoadFailed ==
    /\ IsNone(anim)
    /\ \E at \in StartPlaces : anim' = Some(CreateEmpty(at[1], at[2], at[3], at[4]))
    /\ UNCHANGED <<call, par, gen, clock, object, button, clicked, list, pending, other>>

Draw ==
    /\ IsSome(anim)
    /\ anim' = Some(DrawUpdate(Unwrap(anim), Now))
    /\ UNCHANGED <<call, par, gen, clock, object, button, clicked, list, pending, other>>

Play ==
    /\ IsSome(anim)
    /\ anim' = Some([Unwrap(anim) EXCEPT !.state = "Playing"])
    /\ UNCHANGED <<call, par, gen, clock, object, button, clicked, list, pending, other>>

Pause ==
    /\ IsSome(anim)
    /\ anim' = Some([Unwrap(anim) EXCEPT !.state = "Paused"])
    /\ UNCHANGED <<call, par, gen, clock, object, button, clicked, list, pending, other>>

\* Mutant of Stop: the frame and the accumulated time are kept.
StopKeepsFrame ==
    /\ IsSome(anim)
    /\ anim' = Some([Unwrap(anim) EXCEPT !.state = "Stopped"])
    /\ UNCHANGED <<call, par, gen, clock, object, button, clicked, list, pending, other>>

Stop ==
    /\ IsSome(anim)
    /\ anim' = Some([Unwrap(anim) EXCEPT !.state = "Stopped",
                                         !.current_frame = 0,
                                         !.time_accumulated = 0])
    /\ UNCHANGED <<call, par, gen, clock, object, button, clicked, list, pending, other>>

Reset ==
    /\ IsSome(anim)
    /\ anim' = Some([Unwrap(anim) EXCEPT !.current_frame = 0, !.time_accumulated = 0])
    /\ UNCHANGED <<call, par, gen, clock, object, button, clicked, list, pending, other>>

\* Mutant of SetFrameUpdate: the range check is missing.
SetFrameUpdateUnchecked(a, frame_index) ==
    [a EXCEPT !.current_frame = frame_index, !.time_accumulated = 0]

\* The state set_frame(frame_index) leaves behind.
SetFrameUpdate(a, frame_index) ==
    IF frame_index < a.total_frames
    THEN [a EXCEPT !.current_frame = frame_index, !.time_accumulated = 0]
    ELSE a

SetFrame ==
    /\ IsSome(anim)
    /\ \E frame_index \in 0..MaxFrames :
          anim' = Some(SetFrameUpdate(Unwrap(anim), frame_index))
    /\ UNCHANGED <<call, par, gen, clock, object, button, clicked, list, pending, other>>

\* Time passes between two calls.
Tick ==
    /\ IsSome(anim)
    /\ clock < MaxTime
    /\ clock' = clock + 1
    /\ UNCHANGED <<call, par, gen, anim, object, button, clicked, list, pending, other>>

Init == Idle
Next == \/ New \/ NewOdd \/ FromFrames \/ FromGif \/ FromGifLoadFailed
        \/ Draw \/ Play \/ Pause \/ Stop \/ Reset \/ SetFrame
        \/ Tick
Spec == Init /\ [][Next]_vars

(***************************************************************************)
(* The sprite types after construction: AnimatedImage with its setters,    *)
(* ImageObject and ImageButton.  One sprite exists per behaviour.          *)
(***************************************************************************)

AnimPositions == {<<0, 0>>, <<1, 2>>}          \* <<x, y>>, in units
AnimSizes     == {<<2 * Scale, Scale>>, <<3, 0>>}  \* <<width, height>>, in units
AnimAngles    == {0, 1}

\* The durations set_speed is called with: 0 (raised to the floor) on a
\* sprite whose draw reads frame_durations or that has a single frame; on
\* the others a floor far below the tick would only add catch-up draws.
SpeedsFor(a) ==
    IF IsSome(a.frame_durations) \/ a.total_frames <= 1
    THEN {0} \cup Durations
    ELSE Durations

SetSpeed ==
    /\ IsSome(anim)
    /\ \E frame_duration \in SpeedsFor(Unwrap(anim)) :
          anim' = Some([Unwrap(anim) EXCEPT
                            !.frame_duration = Max(frame_duration, MinFrameDuration)])
    /\ UNCHANGED <<call, par, gen, clock, object, button, clicked, list, pending, other>>

SetLooping ==
    /\ IsSome(anim)
    /\ \E loop_animation \in BOOLEAN :
          anim' = Some([Unwrap(anim) EXCEPT !.loop_animation = loop_animation])
    /\ UNCHANGED <<call, par, gen, clock, object, button, clicked, list, pending, other>>

SetPosition ==
    /\ IsSome(anim)
    /\ \E pos \in AnimPositions :
          anim' = Some([Unwrap(anim) EXCEPT !.x = pos[1], !.y = pos[2]])
    /\ UNCHANGED <<call, par, gen, clock, object, button, clicked, list, pending, other>>

\* set_x and set_y, with the coordinates of AnimPositions.
SetX ==
    /\ IsSome(anim)
    /\ \E pos \in AnimPositions : anim' = Some([Unwrap(anim) EXCEPT !.x = pos[1]])
    /\ UNCHANGED <<call, par, gen, clock, object, button, clicked, list, pending, other>>

SetY ==
    /\ IsSome(anim)
    /\ \E pos \in AnimPositions : anim' = Some([Unwrap(anim) EXCEPT !.y = pos[2]])
    /\ UNCHANGED <<call, par, gen, clock, object, button, clicked, list, pending, other>>

SetAngle ==
    /\ IsSome(anim)
    /\ \E x \in AnimAngles : anim' = Some([Unwrap(anim) EXCEPT !.angle = x])
    /\ UNCHANGED <<call, par, gen, clock, object, button, clicked, list, pending, other>>

\* Mutant of SetSizeUpdate: resizing throws the masks away.
SetSizeUpdateDropsMasks(a, width, height) ==
    [a EXCEPT !.width = width, !.height = height,
              !.transparency_mask = None, !.frame_masks = None]

\* The state set_size leaves behind.
SetSizeUpdate(a, width, height) == [a EXCEPT !.width = width, !.height = height]

SetSize ==
    /\ IsSome(anim)
    /\ \E size \in AnimSizes : anim' = Some(SetSizeUpdate(Unwrap(anim), size[1], size[2]))
    /\ UNCHANGED <<call, par, gen, clock, object, button, clicked, list, pending, other>>

\* --- ImageObject (images_obj.rs).  zoom_level (f32) is a whole number of
\* 2^-27: every f32 from 0.0625 up is one, and so are the sums and the
\* differences of two of them, which f32 rounds to 24 significant bits. ---

MinZoom == 13421773   \* 0.1f32 = 13421773 / 2^27
ZoomOne == Pow2(27)   \* 1.0
MaxZoom == 2          \* zoom_in is followed up to zoom_level MaxZoom

\* generate_mask of images_obj.rs: one pass over an RGBA8 buffer, always a
\* Vec (no all-opaque shortcut, no length check).
ObjectGenerateMask(pixels, width, height) == BuildMask(pixels, width, height)

\* set_texture_main: the texture and its mask.
SetTextureMain(image) == ObjectGenerateMask(image.bytes, image.width, image.height)

\* ImageObject::new
ImageObjectNew(image, width, height, x, y, stretch_enabled, zoom_level) ==
    [texture |-> image,
     x |-> x, y |-> y, width |-> width, height |-> height,
     transparency_mask |-> SetTextureMain(image),
     stretch_enabled |-> stretch_enabled,
     zoom_level |-> Max(zoom_level, MinZoom)]

\* The image files a still sprite or a button is given: RGBA, 1x1 or 2x1.
StillImages == FrameImages(<<1, 1>>) \cup FrameImages(<<2, 1>>)
ZoomLevels  == {0, Pow2(26), ZoomOne}        \* 0.0, 0.5, 1.0
ZoomAmounts == {MinZoom, Pow2(25), Pow2(26)}  \* 0.1, 0.25, 0.5

\* The amounts zoom_in and zoom_out are called with at object o.  Steps of
\* 0.1 do not add up exactly in f32 and, repeated, walk through millions of
\* levels; that amount is drawn only at the levels set_zoom and reset_zoom
\* leave.
ZoomAmountsFor(o) ==
    IF o.zoom_level \in {Max(zoom_level, MinZoom) : zoom_level \in ZoomLevels}
    THEN ZoomAmounts ELSE ZoomAmounts \ {MinZoom}

ObjectSetPosition ==
    /\ IsSome(object)
    /\ \E pos \in AnimPositions :
          object' = Some([Unwrap(object) EXCEPT !.x = pos[1], !.y = pos[2]])
    /\ UNCHANGED <<call, par, gen, anim, clock, button, clicked, list, pending, other>>

\* ImageObject::set_texture
ObjectSetTexture ==
    /\ IsSome(object)
    /\ \E image \in StillImages :
          object' = Some([Unwrap(object) EXCEPT !.texture = image,
                                                !.transparency_mask = SetTextureMain(image)])
    /\ UNCHANGED <<call, par, gen, anim, clock, button, clicked, list, pending, other>>

ObjectSetStretch ==
    /\ IsSome(object)
    /\ \E enabled \in BOOLEAN :
          object' = Some([Unwrap(object) EXCEPT !.stretch_enabled = enabled])
    /\ UNCHANGED <<call, par, gen, anim, clock, button, clicked, list, pending, other>>

ObjectEnableStretch ==
    /\ IsSome(object)
    /\ object' = Some([Unwrap(object) EXCEPT !.stretch_enabled = TRUE])
    /\ UNCHANGED <<call, par, gen, anim, clock, button, clicked, list, pending, other>>

ObjectDisableStretch ==
    /\ IsSome(object)
    /\ object' = Some([Unwrap(object) EXCEPT !.stretch_enabled = FALSE])
    /\ UNCHANGED <<call, par, gen, anim, clock, button, clicked, list, pending, other>>

ObjectToggleStretch ==
    /\ IsSome(object)
    /\ object' = Some([Unwrap(object) EXCEPT !.stretch_enabled = ~@])
    /\ UNCHANGED <<call, par, gen, anim, clock, button, clicked, list, pending, other>>

ObjectSetZoom ==
    /\ IsSome(object)
    /\ \E zoom_level \in ZoomLevels :
          object' = Some([Unwrap(object) EXCEPT !.zoom_level = Max(zoom_level, MinZoom)])
    /\ UNCHANGED <<call, par, gen, anim, clock, button, clicked, list, pending, other>>

\* zoom_level += amount (or -= amount) in f32, then raised to 0.1.
ZoomBy(o, amount) ==
    LET zoom_level == Round24(o.zoom_level + amount)
    IN  [o EXCEPT !.zoom_level = IF zoom_level < MinZoom THEN MinZoom ELSE zoom_level]

ObjectZoomIn ==
    /\ IsSome(object)
    /\ \E amount \in ZoomAmountsFor(Unwrap(object)) :
          /\ Unwrap(object).zoom_level + amount <= MaxZoom * ZoomOne
          /\ object' = Some(ZoomBy(Unwrap(object), amount))
    /\ UNCHANGED <<call, par, gen, anim, clock, button, clicked, list, pending, other>>

ObjectZoomOut ==
    /\ IsSome(object)
    /\ \E amount \in ZoomAmountsFor(Unwrap(object)) :
          object' = Some(ZoomBy(Unwrap(object), 0 - amount))
    /\ UNCHANGED <<call, par, gen, anim, clock, button, clicked, list, pending, other>>

ObjectResetZoom ==
    /\ IsSome(object)
    /\ object' = Some([Unwrap(object) EXCEPT !.zoom_level = ZoomOne])
    /\ UNCHANGED <<call, par, gen, anim, clock, button, clicked, list, pending, other>>

\* --- ImageButton (image_button.rs) ---

\* vec![0xFF; (tex_width * tex_height + 7) / 8]
OpaqueMask(tex_width, tex_height) == [k \in 1..MaskLen(tex_width, tex_height) |-> 255]

\* set_texture of image_button.rs: generate_mask's result, or the fully
\* opaque mask when it is None.
ButtonSetTexture(image) ==
    LET r == ButtonGenerateMask(image.bytes, image.width, image.height)
    IN  IF IsSome(r.mask) THEN Unwrap(r.mask) ELSE OpaqueMask(image.width, image.height)

\* ImageButton::new
ImageButtonNew(x, y, width, height, image, hover_image) ==
    [x |-> x, y |-> y, width |-> width, height |-> height,
     enabled |-> TRUE,
     texture |-> image,
     hover_texture |-> hover_image,
     transparency_mask |-> ButtonSetTexture(image),
     tex_width |-> image.width,
     tex_height |-> image.height,
     visible |-> TRUE]

\* The files set_image is given: an image, or None for a file that cannot
\* be loaded.
ImageFiles == {Some(image) : image \in StillImages} \cup {None}

\* ImageButton::set_image up to its second await: set_texture(texture_path)
\* has returned and the texture, the mask and the texture size are written;
\* set_texture unwraps the load, so a missing file panics before any write.
ButtonSetImage ==
    /\ IsSome(button) /\ pending = NoCall
    /\ \E file \in ImageFiles, hover_file \in ImageFiles :
          IF IsNone(file)
          THEN button' = button /\ pending' = Panicked
          ELSE /\ button' = Some([Unwrap(button) EXCEPT
                                      !.texture = Unwrap(file),
                                      !.transparency_mask = ButtonSetTexture(Unwrap(file)),
                                      !.tex_width = Unwrap(file).width,
                                      !.tex_height = Unwrap(file).height])
               /\ pending' = AwaitingHover(hover_file)
    /\ UNCHANGED <<call, par, gen, anim, clock, object, clicked, list, other>>

\* set_image from its second await on: load_texture(hover_texture_path) is
\* unwrapped, which panics on a missing file, and the hover texture written.
ButtonSetImageHover ==
    /\ IsSome(button) /\ pending.pc = "hover"
    /\ IF IsNone(pending.hover)
       THEN button' = button /\ pending' = Panicked
       ELSE /\ button' = Some([Unwrap(button) EXCEPT
                                   !.hover_texture = Unwrap(pending.hover)])
            /\ pending' = NoCall
    /\ UNCHANGED <<call, par, gen, anim, clock, object, clicked, list, other>>

\* The future of set_image is dropped at its second await: the button keeps
\* the new texture and mask with the old hover texture.
ButtonSetImageDropped ==
    /\ IsSome(button) /\ pending.pc = "hover"
    /\ pending' = NoCall
    /\ UNCHANGED <<call, par, gen, anim, clock, object, button, clicked, list, other>>

\* ImageButton::set_preload, given (texture, mask_option) pairs; a preloaded
\* mask is the one generate_mask of animated_image.rs builds for the image.
ButtonSetPreload ==
    /\ IsSome(button) /\ pending = NoCall
    /\ \E image \in StillImages, hover_image \in StillImages :
          \E mask_option \in {None, SetTextureMask(image)} :
              button' = Some([Unwrap(button) EXCEPT
                                  !.texture = image,
                                  !.hover_texture = hover_image,
                                  !.transparency_mask =
                                      IF IsSome(mask_option)
                                      THEN Unwrap(mask_option)
                                      ELSE OpaqueMask(image.width, image.height),
                                  !.tex_width = image.width,
                                  !.tex_height = image.height])
    /\ UNCHANGED <<call, par, gen, anim, clock, object, clicked, list, pending, other>>

\* Rect::new(x, y, width, height).contains(point): point.x >= left() &&
\* point.x <= right() && point.y <= bottom() && point.y >= top(), with
\* right() = x + w and bottom() = y + h in f32.  All four edges belong to
\* the rectangle.
RectContains(b, mouse_x, mouse_y) ==
    /\ mouse_x >= b.x /\ mouse_x <= Round24(b.x + b.width)
    /\ mouse_y >= b.y /\ mouse_y <= Round24(b.y + b.height)

\* ((mouse - pos) * tex_size as f32 / size) as usize, every operation in
\* f32: the difference and the product are rounded, then the quotient; the
\* cast truncates, takes NaN (0 / 0) and negative values to 0 and +infinity
\* to usize::MAX.
ButtonTexCoord(mouse, pos, tex_size, size) ==
    LET p == Round24(Round24(mouse - pos) * tex_size)
    IN  IF size = 0 THEN (IF p > 0 THEN UsizeMax ELSE 0)
        ELSE IF p = 0 \/ ((p < 0) # (size < 0)) THEN 0
        ELSE F32AsUsize(F32Div(IF p < 0 THEN 0 - p ELSE p,
                               IF size < 0 THEN 0 - size ELSE size))

\* ImageButton::is_hovered: the mask bit of the texel under the mouse, or a
\* panic when the mask has no byte for that texel.
ButtonIsHovered(b, mouse_x, mouse_y) ==
    LET tex_x == ButtonTexCoord(mouse_x, b.x, b.tex_width, b.width)
        tex_y == ButtonTexCoord(mouse_y, b.y, b.tex_height, b.height)
        idx   == tex_y * b.tex_width + tex_x
    IN  IF tex_x < b.tex_width /\ tex_y < b.tex_height
        THEN IF idx \div 8 < Len(b.transparency_mask)
             THEN [hit |-> MaskBit(b.transparency_mask, idx) = 1, panic |-> FALSE]
             ELSE [hit |-> FALSE, panic |-> TRUE]
        ELSE [hit |-> FALSE, panic |-> FALSE]

\* ImageButton::click with the mouse at (mouse_x, mouse_y) and `pressed` the
\* value of is_mouse_button_pressed(MouseButton::Left): the returned value,
\* whether the hover texture was the one drawn, whether anything was drawn.
ButtonClick(b, mouse_x, mouse_y, pressed) ==
    IF ~b.visible
    THEN [result |-> FALSE, hover |-> FALSE, drawn |-> FALSE, panic |-> FALSE]
    ELSE LET is_hovered == RectContains(b, mouse_x, mouse_y)
             over == IF b.enabled /\ is_hovered
                     THEN ButtonIsHovered(b, mouse_x, mouse_y)
                     ELSE [hit |-> FALSE, panic |-> FALSE]
         IN  IF over.panic
             THEN [result |-> FALSE, hover |-> FALSE, drawn |-> FALSE, panic |-> TRUE]
             ELSE [result |-> is_hovered /\ b.enabled /\ pressed,
                   hover  |-> over.hit,
                   drawn  |-> TRUE,
                   panic  |-> FALSE]

\* Mouse positions in units: around and inside the button of StartPlaces.
MouseXs == (-1)..(2 * Scale + 1)
MouseYs == (-1)..(Scale + 1)

\* if button.click() { .. }
Click ==
    /\ IsSome(button) /\ pending = NoCall
    /\ \E mouse_x \in MouseXs, mouse_y \in MouseYs, pressed \in BOOLEAN :
          clicked' = Some([button  |-> Unwrap(button),
                           mouse_x |-> mouse_x,
                           mouse_y |-> mouse_y,
                           pressed |-> pressed,
                           out     |-> ButtonClick(Unwrap(button), mouse_x, mouse_y, pressed)])
    /\ UNCHANGED <<call, par, gen, anim, clock, object, button, list, pending, other>>

\* button.enabled = ..; (a pub field)
SetEnabled ==
    /\ IsSome(button) /\ pending = NoCall
    /\ \E enabled \in BOOLEAN : button' = Some([Unwrap(button) EXCEPT !.enabled = enabled])
    /\ UNCHANGED <<call, par, gen, anim, clock, object, clicked, list, pending, other>>

\* button.visible = ..; (a pub field)
SetVisible ==
    /\ IsSome(button) /\ pending = NoCall
    /\ \E visible \in BOOLEAN : button' = Some([Unwrap(button) EXCEPT !.visible = visible])
    /\ UNCHANGED <<call, par, gen, anim, clock, object, clicked, list, pending, other>>

\* --- the sprites a behaviour starts with, built at time 0 ---

BuiltDim == <<2, 1>>

\* The alpha of every pixel of frame (or sheet cell) i: odd ones are
\* transparent, even ones opaque.
BuiltAlpha(i) == IF i % 2 = 1 THEN 0 ELSE 255

\* n source frames, and the cols x rows sheet of such frames.
BuiltFrames(n) ==
    [i \in 1..n |-> Image(BuiltDim[1], BuiltDim[2],
                          RgbaBytes([p \in 1..(BuiltDim[1] * BuiltDim[2]) |-> BuiltAlpha(i)]))]

BuiltSheet(layout) ==
    Image(layout[1] * BuiltDim[1], layout[2] * BuiltDim[2],
          RgbaBytes(UniformCells(layout, BuiltDim,
                                 [c \in 1..(layout[1] * layout[2]) |-> BuiltAlpha(c)])))

BuiltAnimatedImages ==
    {AnimatedImageNew(BuiltSheet(layout), at[1], at[2], at[3], at[4], layout[1], layout[2],
                      frame_duration, loop_animation, 0) :
        layout \in SheetLayouts, at \in StartPlaces,
        frame_duration \in Durations, loop_animation \in BOOLEAN}
    \cup {Unwrap(AnimatedImageFromFrames(BuiltFrames(n), at[1], at[2], at[3], at[4],
                                         frame_duration, loop_animation, 0)) :
              n \in 1..MaxFrames, at \in StartPlaces,
              frame_duration \in Durations, loop_animation \in BOOLEAN}
    \cup UNION {{AnimatedImageFromGif(gif, at[1], at[2], at[3], at[4], loop_animation, 0) :
                     gif \in GifsOf(BuiltFrames(n)), at \in StartPlaces,
                     loop_animation \in BOOLEAN} :
                n \in 1..MaxFrames}
    \cup {CreateEmpty(at[1], at[2], at[3], at[4]) : at \in StartPlaces}

BuiltImageObjects ==
    {ImageObjectNew(image, at[3], at[4], at[1], at[2], stretch_enabled, zoom_level) :
        image \in StillImages, at \in StartPlaces, stretch_enabled \in BOOLEAN,
        zoom_level \in ZoomLevels}

BuiltImageButtons ==
    {ImageButtonNew(at[1], at[2], at[3], at[4], image, hover_image) :
        image \in StillImages, hover_image \in StillImages, at \in StartPlaces}

InitBuilt ==
    /\ call = None /\ par = None /\ gen = None /\ clock = 0
    /\ clicked = None /\ list = None /\ pending = NoCall /\ other = None
    /\ \/ anim \in {Some(a) : a \in BuiltAnimatedImages} /\ object = None /\ button = None
       \/ object \in {Some(o) : o \in BuiltImageObjects} /\ anim = None /\ button = None
       \/ button \in {Some(b) : b \in BuiltImageButtons} /\ anim = None /\ object = None

NextBuilt == \/ Draw \/ Play \/ Pause \/ Stop \/ Reset \/ SetFrame
             \/ SetSpeed \/ SetLooping \/ SetPosition \/ SetX \/ SetY \/ SetSize \/ SetAngle
             \/ Tick
             \/ ObjectSetPosition \/ ObjectSetTexture \/ ObjectSetStretch
             \/ ObjectEnableStretch \/ ObjectDisableStretch \/ ObjectToggleStretch
             \/ ObjectSetZoom \/ ObjectZoomIn \/ ObjectZoomOut \/ ObjectResetZoom
             \/ ButtonSetImage \/ ButtonSetImageHover \/ ButtonSetImageDropped
             \/ ButtonSetPreload
SpecBuilt == InitBuilt /\ [][NextBuilt]_vars

(***************************************************************************)
(* Claims about check_collision (SpecCollide)                              *)
(***************************************************************************)

Called == IsSome(call)
TheCall == Unwrap(call)

\* The bit of a sprite's mask under screen point (sx, sy) (in units):
\* texture coordinate floor((point - position) / display_size * texture_size),
\* row-major index, most significant bit first.
BitUnder(obj, sx, sy) ==
    LET tex_x == ((sx - obj.pos[1]) * obj.texture_size[1]) \div obj.size[1]
        tex_y == ((sy - obj.pos[2]) * obj.texture_size[2]) \div obj.size[2]
        index == tex_y * obj.texture_size[1] + tex_x
        byte  == Unwrap(obj.mask)[(index \div 8) + 1]
    IN  (byte \div Pow2(7 - (index % 8))) % 2

\* The sample offsets 0, s, 2s, ... below the whole-pixel extent of `units`.
SampleOffsets(units, s) == {o \in 0..((units \div Scale) - 1) : o % s = 0}

DoubleOpaqueSample(c) ==
    LET ov == Overlap(c.obj1, c.obj2)
    IN  \E x \in SampleOffsets(ov.w, c.skip_pixels), y \in SampleOffsets(ov.h, c.skip_pixels) :
            /\ BitUnder(c.obj1, ov.x + x * Scale, ov.y + y * Scale) = 1
            /\ BitUnder(c.obj2, ov.x + x * Scale, ov.y + y * Scale) = 1

BothMasked(c) == IsSome(c.obj1.mask) /\ IsSome(c.obj2.mask)
PositiveSizes(c) == \A i \in 1..2 : c.obj1.size[i] > 0 /\ c.obj2.size[i] > 0
PositiveOverlap(c) == Overlap(c.obj1, c.obj2).w > 0 /\ Overlap(c.obj1, c.obj2).h > 0

\* C1: with both masks present and positive display sizes, check_collision
\* returns true exactly when some strided sample of the whole-pixel overlap
\* lies on a 1 bit of both masks, and false otherwise (it does not fault).
C1_FinePhaseIffDoubleOpaque ==
    (Called /\ BothMasked(TheCall) /\ PositiveSizes(TheCall))
        => /\ ~TheCall.result.panic
           /\ TheCall.result.hit <=> DoubleOpaqueSample(TheCall)

\* C2: display rectangles without a positive-area intersection (touching
\* edges included) never collide, whatever the masks and the stride.
C2_DisjointNeverCollides ==
    (Called /\ ~PositiveOverlap(TheCall))
        => ~TheCall.result.hit /\ ~TheCall.result.panic

AllOnes(obj) ==
    /\ IsSome(obj.mask)
    /\ \A i \in 0..(obj.texture_size[1] * obj.texture_size[2] - 1) :
           MaskBit(Unwrap(obj.mask), i) = 1

AllZero(obj) ==
    /\ IsSome(obj.mask)
    /\ \A i \in 0..(obj.texture_size[1] * obj.texture_size[2] - 1) :
           MaskBit(Unwrap(obj.mask), i) = 0

\* Two fully opaque masked 1x1 sprites of positive size that touch along an
\* edge (intersection width exactly 0).
C2_Witness ==
    /\ Called
    /\ TheCall.obj1.texture_size = <<1, 1>> /\ AllOnes(TheCall.obj1)
    /\ TheCall.obj2.texture_size = <<1, 1>> /\ AllOnes(TheCall.obj2)
    /\ PositiveSizes(TheCall)
    /\ Overlap(TheCall.obj1, TheCall.obj2).w = 0
    /\ Overlap(TheCall.obj1, TheCall.obj2).h > 0
    /\ ~TheCall.result.hit

\* C3: overlapping rectangles with at least one mask missing collide, for
\* every stride and whatever the other sprite's mask holds.
C3_BoundingBoxFallback ==
    (Called /\ PositiveOverlap(TheCall)
            /\ (IsNone(TheCall.obj1.mask) \/ IsNone(TheCall.obj2.mask)))
        => TheCall.result.hit /\ ~TheCall.result.panic

\* Sprite a has no mask, sprite b is fully transparent, they overlap, and
\* the call returned true.
C3_Witness ==
    /\ Called /\ PositiveOverlap(TheCall)
    /\ IsNone(TheCall.obj1.mask)
    /\ AllZero(TheCall.obj2)
    /\ TheCall.skip_pixels = MaxStride
    /\ TheCall.result.hit

(***************************************************************************)
(* Claims about the parallel fine phase (SpecPar)                          *)
(***************************************************************************)

ParDone == IsSome(par) /\ IsSome(Unwrap(par).result)
ParResult == Unwrap(Unwrap(par).result)

\* C4: whatever order the workers take the samples in and whenever `any`
\* exits, the native build returns the boolean the sequential nested loop
\* returns for the same sprites and stride.
C4_ParallelEqualsSequential ==
    ParDone =>
        LET p == Unwrap(par)
            seq == CheckCollision(p.obj1, p.obj2, p.skip_pixels)
        IN  ParResult.hit = seq.hit /\ ParResult.panic = seq.panic

\* A parallel call that returned true by early exit, with samples still
\* pending, for which the sequential scan met a miss before its hit.
C4_Witness ==
    /\ ParDone
    /\ ParResult.hit
    /\ Unwrap(par).pending # {}
    /\ LET p == Unwrap(par)
       IN  ~SampleAt(p.obj1, p.obj2, Overlap(p.obj1, p.obj2), 0, 0).hit

(***************************************************************************)
(* Claims about the mask builder (SpecMask)                                *)
(***************************************************************************)

Generated == IsSome(gen)
TheGen == Unwrap(gen)

IsRgba(image) == Len(image.bytes) = image.width * image.height * 4

IsCheckerboard(image) ==
    /\ image.width \in CheckerDims /\ image.height \in CheckerDims
    /\ image = Checkerboard(image.width, image.height)

\* The mask has a 1 at index y * width + x exactly for the pixels with
\* x + y even.
ParityBits(image, mask) ==
    \A x \in 0..(image.width - 1), y \in 0..(image.height - 1) :
        LET index == y * image.width + x
        IN  ((mask[(index \div 8) + 1] \div Pow2(7 - (index % 8))) % 2 = 1)
                <=> ((x + y) % 2 = 0)

\* C5 as stated: for the checkerboard of every width and height in
\* {1, 2, 7, 16, 33} the builder yields a mask whose bit y * width + x is 1
\* exactly for the even-parity pixels.
C5_CheckerboardRoundTrip ==
    (Generated /\ IsCheckerboard(TheGen.image))
        => /\ IsSome(TheGen.out.mask)
           /\ ParityBits(TheGen.image, Unwrap(TheGen.out.mask))

\* C5 amended: the 1x1 checkerboard is a single opaque pixel, for which the
\* builder returns None; for every other width and height in
\* {1, 2, 7, 16, 33} it returns a mask of ceil(width * height / 8) bytes
\* whose bit y * width + x is 1 exactly for the even-parity pixels.
C5_CheckerboardRoundTripAmended ==
    (Generated /\ IsCheckerboard(TheGen.image))
        => /\ ~TheGen.out.panic
           /\ IF TheGen.image.width = 1 /\ TheGen.image.height = 1
              THEN IsNone(TheGen.out.mask)
              ELSE /\ IsSome(TheGen.out.mask)
                   /\ Len(Unwrap(TheGen.out.mask))
                        = MaskLen(TheGen.image.width, TheGen.image.height)
                   /\ ParityBits(TheGen.image, Unwrap(TheGen.out.mask))

\* The 33x33 checkerboard was built into a mask by animated_image's
\* builder, and its last pixel (32, 32), index 1088, has its bit set.
C5_Witness ==
    /\ Generated /\ TheGen.builder = "animated_image"
    /\ TheGen.image = Checkerboard(33, 33)
    /\ IsSome(TheGen.out.mask)
    /\ MaskBit(Unwrap(TheGen.out.mask), 1088) = 1
    /\ MaskBit(Unwrap(TheGen.out.mask), 1087) = 0

AllAlpha(image, a) ==
    \A i \in 0..(image.width * image.height - 1) : Alpha(image.bytes, i) = a

\* C6: an RGBA image whose alpha bytes are all 255 gets no mask, and an
\* RGBA image with some alpha below 255 gets one.
C6_AllOpaqueIffNone ==
    (Generated /\ IsRgba(TheGen.image))
        => /\ ~TheGen.out.panic
           /\ IsNone(TheGen.out.mask) <=> AllAlpha(TheGen.image, 255)

\* A largest image whose only pixel below 255 is its last one, with alpha 1,
\* got a mask; the scan read every pixel before the build did.
C6_Witness ==
    /\ Generated /\ IsRgba(TheGen.image)
    /\ TheGen.image.width = MaxDim /\ TheGen.image.height = MaxDim
    /\ \A i \in 0..(MaxDim * MaxDim - 2) : Alpha(TheGen.image.bytes, i) = 255
    /\ Alpha(TheGen.image.bytes, MaxDim * MaxDim - 1) = 1
    /\ IsSome(TheGen.out.mask)
    /\ TheGen.out.reads = 2 * MaxDim * MaxDim

\* C7: a buffer whose length is not width * height * 4 gets no mask, no
\* pixel is read, and nothing faults.
C7_NoAlphaChannelRejected ==
    (Generated /\ ~IsRgba(TheGen.image))
        => /\ IsNone(TheGen.out.mask)
           /\ TheGen.out.reads = 0
           /\ ~TheGen.out.panic

\* An RGB buffer of length width * height * 3 went through each builder.
C7_Witness ==
    /\ Generated
    /\ Len(TheGen.image.bytes) = TheGen.image.width * TheGen.image.height * 3
    /\ TheGen.image.width = MaxDim /\ TheGen.image.height = MaxDim
    /\ IsNone(TheGen.out.mask)

\* C8: a fully transparent RGBA image gets a mask of
\* ceil(width * height / 8) bytes, all of them 0.
C8_AllTransparentZeroMask ==
    (Generated /\ IsRgba(TheGen.image) /\ AllAlpha(TheGen.image, 0))
        => /\ ~TheGen.out.panic
           /\ IsSome(TheGen.out.mask)
           /\ Len(Unwrap(TheGen.out.mask))
                = (TheGen.image.width * TheGen.image.height + 7) \div 8
           /\ \A k \in 1..Len(Unwrap(TheGen.out.mask)) : Unwrap(TheGen.out.mask)[k] = 0

\* A fully transparent image of the largest size went through
\* animated_image's builder and got a mask.
C8_Witness ==
    /\ Generated /\ TheGen.builder = "animated_image"
    /\ IsRgba(TheGen.image) /\ AllAlpha(TheGen.image, 0)
    /\ TheGen.image.width = MaxDim /\ TheGen.image.height = MaxDim
    /\ IsSome(TheGen.out.mask)

(***************************************************************************)
(* Claims about AnimatedImage masks (Spec)                                 *)
(***************************************************************************)

Built == IsSome(anim)
TheAnim == Unwrap(anim)

\* The whole texels of the current frame's source rectangle.
FrameTexels(a) ==
    [x |-> F32AsUsize(CurrentFrameRect(a).x), y |-> F32AsUsize(CurrentFrameRect(a).y),
     w |-> F32AsUsize(CurrentFrameRect(a).w), h |-> F32AsUsize(CurrentFrameRect(a).h)]

\* ceil(x * y / 8) for two f32 values.
CeilEighth(x, y) ==
    (x[1] * y[1] + 8 * Pow2(x[2] + y[2]) - 1) \div (8 * Pow2(x[2] + y[2]))

\* The mask's bit y * frame_width + x is 1 exactly when pixel (x, y) of the
\* frame drawn for current_frame (its source rectangle in the atlas) has
\* alpha > 0.
MaskShowsCurrentFrame(a, mask) ==
    LET rect == FrameTexels(a)
    IN  /\ Len(mask) * 8 >= rect.w * rect.h
        /\ \A x \in 0..(rect.w - 1), y \in 0..(rect.h - 1) :
               (MaskBit(mask, y * rect.w + x) = 1)
                   <=> (Alpha(a.texture.bytes,
                              (rect.y + y) * a.texture.width + rect.x + x) > 0)

\* Every pixel of the frame drawn for current_frame has alpha > 0.
CurrentFrameOpaque(a) ==
    LET rect == FrameTexels(a)
    IN  \A x \in 0..(rect.w - 1), y \in 0..(rect.h - 1) :
            Alpha(a.texture.bytes, (rect.y + y) * a.texture.width + rect.x + x) > 0

\* get_mask() describes the displayed frame: Some(mask) with the frame's
\* bits, or None (read as "fully opaque") for a frame without a transparent
\* pixel.
DescribesCurrentFrame(a) ==
    IF IsNone(GetMask(a))
    THEN CurrentFrameOpaque(a)
    ELSE MaskShowsCurrentFrame(a, Unwrap(GetMask(a)))

\* C9 as stated: for every multi-frame AnimatedImage, however constructed
\* and after any sequence of draw, set_frame, play, pause, stop and reset,
\* get_mask() is the opacity mask of the currently displayed frame.
C9_MaskOfCurrentFrame ==
    (Built /\ TheAnim.total_frames > 1) => DescribesCurrentFrame(TheAnim)

\* What the code does keep: the statement of C9 for sprites built by
\* from_gif, the one constructor that fills frame_masks.
C9_HoldsForGif ==
    (Built /\ TheAnim.total_frames > 1 /\ TheAnim.ctor = "from_gif")
        => /\ IsSome(GetMask(TheAnim))
           /\ MaskShowsCurrentFrame(TheAnim, Unwrap(GetMask(TheAnim)))

\* C10 as stated: a sprite assembled from several source frames, by
\* from_frames or by from_gif, has exactly one mask per source frame, each
\* built from that frame's own pixel buffer.
C10_OneMaskPerSourceFrame ==
    (Built /\ TheAnim.ctor \in {"from_frames", "from_gif"} /\ Len(TheAnim.frames) > 1)
        => /\ IsSome(TheAnim.frame_masks)
           /\ Len(Unwrap(TheAnim.frame_masks)) = Len(TheAnim.frames)
           /\ Len(Unwrap(TheAnim.frame_masks)) = TheAnim.total_frames
           /\ \A i \in 1..Len(TheAnim.frames) :
                  Unwrap(TheAnim.frame_masks)[i]
                      = PackMask({p \in 0..(TheAnim.frames[i].width * TheAnim.frames[i].height - 1) :
                                     Alpha(TheAnim.frames[i].bytes, p) > 0},
                                 TheAnim.frames[i].width, TheAnim.frames[i].height)

\* What the code does keep: the statement of C10 for from_gif alone.
C10_HoldsForGif ==
    (Built /\ TheAnim.ctor = "from_gif" /\ Len(TheAnim.frames) > 1)
        => /\ IsSome(TheAnim.frame_masks)
           /\ Len(Unwrap(TheAnim.frame_masks)) = Len(TheAnim.frames)
           /\ Len(Unwrap(TheAnim.frame_masks)) = TheAnim.total_frames
           /\ \A i \in 1..Len(TheAnim.frames) :
                  Unwrap(TheAnim.frame_masks)[i]
                      = PackMask({p \in 0..(TheAnim.frames[i].width * TheAnim.frames[i].height - 1) :
                                     Alpha(TheAnim.frames[i].bytes, p) > 0},
                                 TheAnim.frames[i].width, TheAnim.frames[i].height)

\* C11 as stated: whenever get_mask() returns Some(m), m has
\* ceil(texture_size().x * texture_size().y / 8) bytes, texture_size() being
\* the size the sprite reports to the collision tester (one frame for a
\* multi-frame sprite).
C11_MaskLengthInvariant ==
    (Built /\ IsSome(GetMask(TheAnim)))
        => Len(Unwrap(GetMask(TheAnim)))
               = CeilEighth(TextureSize(TheAnim)[1], TextureSize(TheAnim)[2])

\* What the code does keep: the length matches for single-frame sprites and
\* for sprites built by from_gif.
C11_HoldsForGifAndSingleFrame ==
    (Built /\ IsSome(GetMask(TheAnim))
           /\ (TheAnim.total_frames = 1 \/ TheAnim.ctor = "from_gif"))
        => Len(Unwrap(GetMask(TheAnim)))
               = CeilEighth(TextureSize(TheAnim)[1], TextureSize(TheAnim)[2])

(***************************************************************************)
(* Further claims about check_collision (SpecCollide)                      *)
(***************************************************************************)

ZeroSized(obj) == obj.size[1] = 0 \/ obj.size[2] = 0

\* C12: a sprite whose display width or height is zero never collides,
\* masked or not; the overlap it forms is not positive, so check_collision
\* returns at its bounding-box test or its overlap guard, before the loops
\* that hold the division by the display size.
C12_ZeroSizeNeverCollides ==
    (Called /\ (ZeroSized(TheCall.obj1) \/ ZeroSized(TheCall.obj2)))
        => /\ ~TheCall.result.hit
           /\ ~TheCall.result.panic
           /\ ~PositiveOverlap(TheCall)

\* A zero-width sprite b of positive height lying strictly inside sprite a,
\* one of them without a mask: the call returned false.
C12_Witness ==
    /\ Called
    /\ TheCall.obj2.size[1] = 0 /\ TheCall.obj2.size[2] > 0
    /\ TheCall.obj2.pos[1] > TheCall.obj1.pos[1]
    /\ TheCall.obj2.pos[1] < TheCall.obj1.pos[1] + TheCall.obj1.size[1]
    /\ Overlap(TheCall.obj1, TheCall.obj2).h > 0
    /\ IsNone(TheCall.obj1.mask)
    /\ ~TheCall.result.hit

\* Whether the whole-pixel offset (x, y) of the overlap lies on a 1 bit of
\* both masks.
DoubleOpaqueAt(c, x, y) ==
    LET ov == Overlap(c.obj1, c.obj2)
    IN  /\ BitUnder(c.obj1, ov.x + x * Scale, ov.y + y * Scale) = 1
        /\ BitUnder(c.obj2, ov.x + x * Scale, ov.y + y * Scale) = 1

\* The whole-pixel offsets of the overlap that are opaque in both sprites.
DoubleOpaqueOffsets(c) ==
    LET ov == Overlap(c.obj1, c.obj2)
    IN  {o \in SampleOffsets(ov.w, 1) \X SampleOffsets(ov.h, 1) : DoubleOpaqueAt(c, o[1], o[2])}

SingleCoincidence(c) ==
    /\ BothMasked(c) /\ PositiveSizes(c) /\ PositiveOverlap(c)
    /\ Cardinality(DoubleOpaqueOffsets(c)) = 1

TheCoincidence(c) == CHOOSE o \in DoubleOpaqueOffsets(c) : TRUE

\* C14: when exactly one whole-pixel offset (x0, y0) of the overlap is
\* opaque in both sprites, stride 1 finds it, and stride k finds it exactly
\* when k divides both x0 and y0.
C14_StrideTradeOff ==
    (Called /\ SingleCoincidence(TheCall))
        => /\ ~TheCall.result.panic
           /\ CheckCollision(TheCall.obj1, TheCall.obj2, 1).hit
           /\ TheCall.result.hit
                  <=> /\ TheCoincidence(TheCall)[1] % TheCall.skip_pixels = 0
                      /\ TheCoincidence(TheCall)[2] % TheCall.skip_pixels = 0

IsExact(c) == c.obj1.texture_size = ExactTex /\ c.obj2.texture_size = ExactTex

\* The one texel <<x, y>> whose bit is set in a single-texel mask.
OpaqueTexel(obj) ==
    CHOOSE t \in (0..(obj.texture_size[1] - 1)) \X (0..(obj.texture_size[2] - 1)) :
        MaskBit(Unwrap(obj.mask), t[2] * obj.texture_size[1] + t[1]) = 1

\* The screen pixel <<x, y>> the sprite's opaque texel is drawn on.
OpaquePixel(obj) ==
    <<obj.pos[1] \div Scale + OpaqueTexel(obj)[1], obj.pos[2] \div Scale + OpaqueTexel(obj)[2]>>

\* C15: two 4x4 sprites shown at texture size on whole-pixel positions,
\* overlapping in exactly 2x2 pixels, each opaque at one texel: with stride 1
\* check_collision returns true exactly when the two opaque texels fall on
\* the same screen pixel.
C15_ExactPixelHit ==
    (Called /\ IsExact(TheCall) /\ TheCall.skip_pixels = 1
            /\ Overlap(TheCall.obj1, TheCall.obj2).w = 2 * Scale
            /\ Overlap(TheCall.obj1, TheCall.obj2).h = 2 * Scale)
        => /\ ~TheCall.result.panic
           /\ TheCall.result.hit <=> (OpaquePixel(TheCall.obj1) = OpaquePixel(TheCall.obj2))

\* Sprite b two pixels right of and below sprite a, a opaque at its texel
\* (3, 3) and b at its texel (1, 1): the same screen pixel, the last sample
\* of the 2x2 overlap, and the call returned true.
C15_Witness ==
    /\ Called /\ IsExact(TheCall) /\ TheCall.skip_pixels = 1
    /\ TheCall.obj2.pos = <<TheCall.obj1.pos[1] + 2 * Scale, TheCall.obj1.pos[2] + 2 * Scale>>
    /\ OpaqueTexel(TheCall.obj1) = <<3, 3>>
    /\ OpaqueTexel(TheCall.obj2) = <<1, 1>>
    /\ TheCall.result.hit

FinePhase(c) == BothMasked(c) /\ PositiveSizes(c) /\ PositiveOverlap(c)

\* The texel <<tx, ty>> of obj under the sample at whole-pixel offset s.
TexelAt(obj, ov, s) ==
    <<TexCoord(ov.x, s[1], obj.pos[1], obj.size[1], obj.texture_size[1]),
      TexCoord(ov.y, s[2], obj.pos[2], obj.size[2], obj.texture_size[2])>>

\* C18: with positive display sizes, every sample the fine phase visits
\* maps, in each sprite, to 0 <= tex_x < texture_width and
\* 0 <= tex_y < texture_height, so the bit index ty * texture_width + tx is
\* below texture_width * texture_height.
C18_TexCoordsInRange ==
    (Called /\ FinePhase(TheCall)) =>
        LET ov == Overlap(TheCall.obj1, TheCall.obj2)
        IN  \A s \in Samples(ov, TheCall.skip_pixels), obj \in {TheCall.obj1, TheCall.obj2} :
                /\ TexelAt(obj, ov, s)[1] \in 0..(obj.texture_size[1] - 1)
                /\ TexelAt(obj, ov, s)[2] \in 0..(obj.texture_size[2] - 1)
                /\ MaskIndex(obj, ov, s[1], s[2]) < obj.texture_size[1] * obj.texture_size[2]

\* A sample that maps to the last texel of a sprite b of more than one
\* texel, shown at another size than its texture's.
C18_Witness ==
    /\ Called /\ FinePhase(TheCall)
    /\ TheCall.obj2.texture_size[1] * TheCall.obj2.texture_size[2] > 1
    /\ TheCall.obj2.size # <<Scale * TheCall.obj2.texture_size[1],
                             Scale * TheCall.obj2.texture_size[2]>>
    /\ LET ov == Overlap(TheCall.obj1, TheCall.obj2)
       IN  \E s \in Samples(ov, TheCall.skip_pixels) :
               MaskIndex(TheCall.obj2, ov, s[1], s[2])
                   = TheCall.obj2.texture_size[1] * TheCall.obj2.texture_size[2] - 1

\* The whole-pixel width and height of the overlap (overlap_w as usize).
OverlapCols(c) == AsUsize(Overlap(c.obj1, c.obj2).w, Scale)
OverlapRows(c) == AsUsize(Overlap(c.obj1, c.obj2).h, Scale)

\* The columns and rows the fine phase's ranges visit.
SampledCols(c) == {s[1] : s \in Samples(Overlap(c.obj1, c.obj2), c.skip_pixels)}
SampledRows(c) == {s[2] : s \in Samples(Overlap(c.obj1, c.obj2), c.skip_pixels)}

\* C19 as stated: whenever the whole-pixel overlap width (height) is not a
\* multiple of the stride, the final column (row) of the overlap is never
\* sampled.
C19_FinalColumnNeverSampled ==
    (Called /\ FinePhase(TheCall))
        => /\ (OverlapCols(TheCall) % TheCall.skip_pixels # 0)
                  => (OverlapCols(TheCall) - 1) \notin SampledCols(TheCall)
           /\ (OverlapRows(TheCall) % TheCall.skip_pixels # 0)
                  => (OverlapRows(TheCall) - 1) \notin SampledRows(TheCall)

\* C19 amended: for an overlap of at least one whole pixel each way, the
\* final column (row) is sampled exactly when the stride divides its
\* offset, overlap width (height) - 1.
C19_FinalColumnSampledIffDivides ==
    (Called /\ FinePhase(TheCall)
            /\ OverlapCols(TheCall) >= 1 /\ OverlapRows(TheCall) >= 1)
        => /\ (OverlapCols(TheCall) - 1) \in SampledCols(TheCall)
                  <=> (OverlapCols(TheCall) - 1) % TheCall.skip_pixels = 0
           /\ (OverlapRows(TheCall) - 1) \in SampledRows(TheCall)
                  <=> (OverlapRows(TheCall) - 1) % TheCall.skip_pixels = 0

\* An overlap 3 pixels wide and 2 high scanned with stride 2: the width is
\* no multiple of the stride and the final column, offset 2, is sampled;
\* the height is one and the final row, offset 1, is not.
C19_Witness ==
    /\ Called /\ FinePhase(TheCall)
    /\ TheCall.skip_pixels = 2
    /\ OverlapCols(TheCall) = 3 /\ OverlapRows(TheCall) = 2
    /\ 2 \in SampledCols(TheCall)
    /\ 1 \notin SampledRows(TheCall)

\* C20: check_collision(a, b, stride) = check_collision(b, a, stride).
C20_Symmetric ==
    Called => TheCall.result = CheckCollision(TheCall.obj2, TheCall.obj1, TheCall.skip_pixels)

\* A call that returned true on two masked sprites of different texture
\* sizes and different display sizes, sprite a opaque where sprite b is
\* sampled and transparent elsewhere.
C20_Witness ==
    /\ Called /\ FinePhase(TheCall)
    /\ TheCall.obj1.texture_size # TheCall.obj2.texture_size
    /\ TheCall.obj1.size # TheCall.obj2.size
    /\ ~AllOnes(TheCall.obj1) /\ ~AllOnes(TheCall.obj2)
    /\ TheCall.result.hit

(***************************************************************************)
(* Claims about masks shorter than the texture (SpecShortMask)             *)
(***************************************************************************)

InMask(obj, idx) == idx \div 8 < Len(Unwrap(obj.mask))

\* Some sample whose two indices lie inside their masks meets a 1 bit in
\* both.
InRangeDoubleOpaque(c) ==
    LET ov == Overlap(c.obj1, c.obj2)
    IN  \E s \in Samples(ov, c.skip_pixels) :
            LET idx1 == MaskIndex(c.obj1, ov, s[1], s[2])
                idx2 == MaskIndex(c.obj2, ov, s[1], s[2])
            IN  /\ InMask(c.obj1, idx1) /\ InMask(c.obj2, idx2)
                /\ MaskBit(Unwrap(c.obj1.mask), idx1) = 1
                /\ MaskBit(Unwrap(c.obj2.mask), idx2) = 1

\* C13 as stated: a sample that maps to an index outside a sprite's mask
\* counts as "no collision" and the scan goes on; check_collision does not
\* fault, and returns true exactly when some in-range sample is opaque in
\* both masks.
C13_OutOfRangeIsNoCollision ==
    (Called /\ BothMasked(TheCall) /\ PositiveSizes(TheCall) /\ PositiveOverlap(TheCall))
        => /\ ~TheCall.result.panic
           /\ TheCall.result.hit <=> InRangeDoubleOpaque(TheCall)

(***************************************************************************)
(* Claims about the sprites after construction (SpecBuilt)                 *)
(***************************************************************************)

\* C17: no AnimatedImage operation (draw, play, pause, stop, reset,
\* set_frame, set_speed, set_looping, set_position, set_x, set_y, set_size,
\* set_angle) changes the atlas mask or a frame mask; an ImageObject's mask
\* changes only in set_texture (not in set_position, the stretch and the
\* zoom methods), an ImageButton's only in set_image or set_preload.
C17_MasksWriteOnce ==
    [][/\ IsSome(anim) =>
              /\ Unwrap(anim').transparency_mask = Unwrap(anim).transparency_mask
              /\ Unwrap(anim').frame_masks = Unwrap(anim).frame_masks
       /\ (IsSome(object)
              /\ Unwrap(object').transparency_mask # Unwrap(object).transparency_mask)
             => ObjectSetTexture
       /\ (IsSome(button)
              /\ Unwrap(button').transparency_mask # Unwrap(button).transparency_mask)
             => (ButtonSetImage \/ ButtonSetPreload)]_vars

\* A GIF sprite that has been moved, resized, turned, set to another speed
\* and stepped to its second frame after time passed, still holding its
\* atlas mask and one mask per frame.
C17_Witness ==
    /\ Built /\ TheAnim.ctor = "from_gif"
    /\ TheAnim.current_frame = 1
    /\ <<TheAnim.x, TheAnim.y>> = <<1, 2>>
    /\ <<TheAnim.width, TheAnim.height>> = <<3, 0>>
    /\ TheAnim.angle = 1
    /\ TheAnim.frame_duration = MinFrameDuration
    /\ TheAnim.state = "Paused"
    /\ clock > 0 /\ TheAnim.last_update > 0
    /\ IsSome(TheAnim.transparency_mask)
    /\ Len(Unwrap(TheAnim.frame_masks)) = TheAnim.total_frames

(***************************************************************************)
(* Opaque masks against no mask (SpecCollide)                              *)
(***************************************************************************)

WithoutMask(obj) == [obj EXCEPT !.mask = None]

\* C21 as stated: two sprites whose masks have every bit set collide at
\* stride 1 exactly when their display rectangles overlap with positive
\* area, the answer the None/None fallback gives for the same geometry,
\* overlaps narrower than one pixel included.
C21_OpaqueMaskEqualsNoMask ==
    (Called /\ AllOnes(TheCall.obj1) /\ AllOnes(TheCall.obj2) /\ TheCall.skip_pixels = 1)
        => /\ TheCall.result.hit <=> PositiveOverlap(TheCall)
           /\ TheCall.result
                = CheckCollision(WithoutMask(TheCall.obj1), WithoutMask(TheCall.obj2), 1)

\* What the code does keep: the two answers agree whenever the overlap is
\* not positive or spans at least one whole pixel each way.
C21_HoldsForWholePixelOverlap ==
    (Called /\ AllOnes(TheCall.obj1) /\ AllOnes(TheCall.obj2) /\ TheCall.skip_pixels = 1
            /\ (PositiveOverlap(TheCall)
                   => (OverlapCols(TheCall) >= 1 /\ OverlapRows(TheCall) >= 1)))
        => /\ TheCall.result.hit <=> PositiveOverlap(TheCall)
           /\ TheCall.result
                = CheckCollision(WithoutMask(TheCall.obj1), WithoutMask(TheCall.obj2), 1)

(***************************************************************************)
(* Claims about the animation (Spec)                                       *)
(***************************************************************************)

\* C22: current_frame < total_frames in every state reached by draw, play,
\* pause, stop, reset and set_frame; set_frame with an index >=
\* total_frames leaves current_frame and time_accumulated as they are; and
\* one draw call moves current_frame by at most one frame (to the next one,
\* or from the last one back to frame 0).
C22_FrameIndexInRange ==
    /\ []((Built /\ TheAnim.total_frames >= 1) =>
            /\ TheAnim.current_frame < TheAnim.total_frames
            /\ \A frame_index \in TheAnim.total_frames..(MaxFrames + 1) :
                   /\ SetFrameUpdate(TheAnim, frame_index).current_frame
                        = TheAnim.current_frame
                   /\ SetFrameUpdate(TheAnim, frame_index).time_accumulated
                        = TheAnim.time_accumulated)
    /\ [][(Draw /\ TheAnim.total_frames >= 1) =>
            \/ Unwrap(anim').current_frame = TheAnim.current_frame
            \/ Unwrap(anim').current_frame
                 = (TheAnim.current_frame + 1) % TheAnim.total_frames]_vars

\* A playing sprite on its second frame whose last draw came after more
\* than two frame durations: it advanced one frame only and kept the rest
\* of the time.
C22_Witness ==
    /\ Built /\ TheAnim.total_frames > 1
    /\ TheAnim.state = "Playing"
    /\ IsNone(TheAnim.frame_durations)
    /\ TheAnim.current_frame = 1
    /\ TheAnim.time_accumulated >= TheAnim.frame_duration
    /\ clock > 0 /\ TheAnim.last_update = Now

(***************************************************************************)
(* An animation that is only drawn (SpecDraw): the main loop calls draw    *)
(* once per rendered frame and the clock keeps running, so both steps are  *)
(* weakly fair.  draw reads the clock only through get_time() -            *)
(* last_update, so once the clock has reached MaxTime a further tick is    *)
(* represented by moving last_update back instead of the clock forward     *)
(* (whole ticks are exact in f32 up to 2^24 of them, so the difference is  *)
(* the same).  That is done for an animation that does not loop, which     *)
(* comes to rest; a looping one is followed up to MaxTime.                 *)
(* The sprite is drawn at least once per tick: with longer gaps and a      *)
(* frame duration below the gap, time_accumulated grows without bound.     *)
(***************************************************************************)

\* is_finished(): the value returned and whether the call panics.  On a
\* stopped sprite with no frames total_frames - 1 underflows: a build with
\* overflow checks panics, one without wraps to usize::MAX, which no frame
\* index equals.  The subtraction is not reached in another state.
IsFinished(a, overflow_checks) ==
    IF a.state # "Stopped" THEN [ret |-> FALSE, panic |-> FALSE]
    ELSE IF a.total_frames = 0
         THEN [ret |-> FALSE, panic |-> overflow_checks]
         ELSE [ret |-> a.current_frame = a.total_frames - 1, panic |-> FALSE]

\* is_finished() returns true, whatever the build.
ReportsFinished(a) ==
    \A overflow_checks \in BOOLEAN :
        IsFinished(a, overflow_checks) = [ret |-> TRUE, panic |-> FALSE]

Elapse ==
    /\ IsSome(anim)
    /\ Unwrap(anim).last_update = Now
    /\ IF clock < MaxTime
       THEN clock' = clock + 1 /\ anim' = anim
       ELSE /\ ~Unwrap(anim).loop_animation
            /\ clock' = clock
            /\ anim' = Some([Unwrap(anim) EXCEPT !.last_update = @ - TickSec])
    /\ UNCHANGED <<call, par, gen, object, button, clicked, list, pending, other>>

InitDraw ==
    /\ call = None /\ par = None /\ gen = None /\ clock = 0
    /\ object = None /\ button = None /\ clicked = None /\ list = None
    /\ pending = NoCall /\ other = None
    /\ anim \in {Some(a) : a \in BuiltAnimatedImages}

NextDraw == Draw \/ Elapse
SpecDraw == InitDraw /\ [][NextDraw]_vars /\ WF_vars(Draw) /\ WF_vars(Elapse)

\* C23: a playing non-looping animation of more than one frame that keeps
\* being drawn while time advances eventually is finished (Stopped on its
\* last frame), and once finished it stays finished under further draws; a
\* draw of a looping animation never changes the state, and when it leaves
\* the last frame it goes to frame 0.
C23_PlaysToTheEnd ==
    /\ (Built /\ TheAnim.state = "Playing" /\ TheAnim.total_frames > 1
              /\ ~TheAnim.loop_animation) ~> (Built /\ ReportsFinished(TheAnim))
    /\ [][(Draw /\ ReportsFinished(TheAnim)) => Unwrap(anim') = TheAnim]_vars
    /\ [][(Draw /\ TheAnim.loop_animation)
             => /\ Unwrap(anim').state = TheAnim.state
                /\ (TheAnim.current_frame = TheAnim.total_frames - 1
                        /\ Unwrap(anim').current_frame # TheAnim.current_frame)
                       => Unwrap(anim').current_frame = 0]_vars

\* A non-looping animation of more than one frame that draw has stopped on
\* its last frame.
C23_Witness ==
    /\ Built /\ ~TheAnim.loop_animation /\ TheAnim.total_frames > 1
    /\ ReportsFinished(TheAnim) /\ TheAnim.last_update > 0

\* C24: pause() sets Paused and keeps current_frame; stop() sets Stopped and
\* zeroes current_frame and time_accumulated; reset() zeroes current_frame
\* and keeps the state; a draw in state Paused or Stopped keeps current_frame.
C24_Controls ==
    [][/\ Pause => /\ Unwrap(anim').state = "Paused"
                   /\ Unwrap(anim').current_frame = TheAnim.current_frame
       /\ Stop => /\ Unwrap(anim').state = "Stopped"
                  /\ Unwrap(anim').current_frame = 0
                  /\ Unwrap(anim').time_accumulated = 0
       /\ Reset => /\ Unwrap(anim').current_frame = 0
                   /\ Unwrap(anim').state = TheAnim.state
       /\ (Draw /\ TheAnim.state \in {"Paused", "Stopped"})
              => Unwrap(anim').current_frame = TheAnim.current_frame]_vars

\* A paused animation on frame 1 whose frame time has run out on the clock.
C24_Witness ==
    /\ Built /\ TheAnim.state = "Paused" /\ TheAnim.current_frame = 1
    /\ IsNone(TheAnim.frame_durations)
    /\ TheAnim.time_accumulated + (Now - TheAnim.last_update) >= TheAnim.frame_duration

\* What the first draw after play() shows when both are called at time now.
ResumeAt(a, now) ==
    LET drawn == DrawUpdate([a EXCEPT !.state = "Playing"], now)
    IN  <<drawn.current_frame, drawn.time_accumulated>>

\* C25 as stated: time that passes while the animation is paused or stopped
\* is not added to time_accumulated, so the frame and accumulated time shown
\* by the first draw after play() do not depend on how long the pause lasted.
C25_PauseTimeNotCounted ==
    [][(Tick /\ TheAnim.state \in {"Paused", "Stopped"})
          => ResumeAt(TheAnim, clock' * TickSec) = ResumeAt(TheAnim, Now)]_vars

(***************************************************************************)
(* A button that is shown, hidden, enabled, disabled and clicked           *)
(* (SpecClick).                                                            *)
(***************************************************************************)

InitClick ==
    /\ call = None /\ par = None /\ gen = None /\ clock = 0
    /\ anim = None /\ object = None /\ clicked = None /\ list = None
    /\ pending = NoCall /\ other = None
    /\ button \in {Some(b) : b \in BuiltImageButtons}

NextClick == Click \/ SetEnabled \/ SetVisible
SpecClick == InitClick /\ [][NextClick]_vars

Clicked == IsSome(clicked)
TheClick == Unwrap(clicked)

\* The mouse is over a pixel of the button's image whose mask bit is 1: the
\* point lies in the button's rectangle and the texel it maps to is opaque.
OverOpaquePixel(b, mouse_x, mouse_y) ==
    /\ RectContains(b, mouse_x, mouse_y)
    /\ LET tex_x == ((mouse_x - b.x) * b.tex_width) \div b.width
           tex_y == ((mouse_y - b.y) * b.tex_height) \div b.height
       IN  /\ tex_x < b.tex_width /\ tex_y < b.tex_height
           /\ MaskBit(b.transparency_mask, tex_y * b.tex_width + tex_x) = 1

\* C26 as stated: click() returns true only when the button is visible and
\* enabled, the left button was pressed, and the mouse is over a pixel whose
\* mask bit is 1.
C26_ClickNeedsOpaquePixel ==
    (Clicked /\ TheClick.out.result)
        => /\ TheClick.button.visible
           /\ TheClick.button.enabled
           /\ TheClick.pressed
           /\ OverOpaquePixel(TheClick.button, TheClick.mouse_x, TheClick.mouse_y)

\* What does hold: click() returns true exactly when the button is visible
\* and enabled, the left button was pressed and the mouse is inside the
\* button's rectangle; the mask only selects the texture that is drawn.
C26_ClickIsRectangleTest ==
    Clicked
        => /\ TheClick.out.result
               <=> /\ TheClick.button.visible
                   /\ TheClick.button.enabled
                   /\ TheClick.pressed
                   /\ RectContains(TheClick.button, TheClick.mouse_x, TheClick.mouse_y)
           /\ TheClick.out.hover
               <=> /\ TheClick.button.visible
                   /\ TheClick.button.enabled
                   /\ OverOpaquePixel(TheClick.button, TheClick.mouse_x, TheClick.mouse_y)

(***************************************************************************)
(* ListView (listview.rs).  Lengths and mouse coordinates (f32) are whole  *)
(* numbers of 2^-20 px, item_spacing (f32) a whole number of 2^-23; every  *)
(* f32 operation is the exact one rounded to 24 significant bits.  That is *)
(* exact for lengths below 2048 px whose fraction, if any, belongs to a    *)
(* value of at least 8 px, and for a spacing of at least 1.  Indices are   *)
(* 0-based as in the source, so item i of the Vec is items[i + 1] here.    *)
(***************************************************************************)

MaxItems == 3   \* the list holds at most MaxItems items

Px == Pow2(20)               \* one pixel
DefaultSpacing == 10066330   \* 1.2f32 = 10066330 / 2^23

ItemLabels == {"a", "bbb"}

SaturatingSub(a, b) == Max(a - b, 0)

\* `.round() as usize` of the f32 a = <<m, s>>, a >= 0: halves round up.
RoundAsUsize(a) ==
    IF a[2] > 30 THEN 0
    ELSE IF a[2] <= 0 THEN a[1]
    ELSE (a[1] + Pow2(a[2] - 1)) \div Pow2(a[2])

\* Rect::new(x, y, w, h).contains(point), with right() = x + w and
\* bottom() = y + h in f32; all four edges belong to the rectangle.
RectHas(rect, point) ==
    /\ point[1] >= rect[1] /\ point[1] <= Round24(rect[1] + rect[3])
    /\ point[2] >= rect[2] /\ point[2] <= Round24(rect[2] + rect[4])

\* ListView::new
ListViewNew(items, x, y, font_size) ==
    [items |-> items,
     x |-> x,
     y |-> y,
     font_size |-> font_size,
     selected_index |-> None,
     item_spacing |-> DefaultSpacing,
     item_padding |-> 5 * Px,
     scroll_offset |-> 0,
     max_visible_items |-> None,
     show_scrollbar |-> TRUE,
     scrollbar_width |-> 10 * Px,
     width_override |-> None]

\* font_size as f32 * item_spacing
ItemHeight(l) == Round24(l.font_size * l.item_spacing) \div 8

\* measure_text(item, None, font_size, 1.0).width.  The metrics are those
\* of the font macroquad draws with and are no part of this program: the
\* width of a glyph is an input of the frame (glyph_width, drawn by the
\* action), and a text is as wide as its glyphs together.
MeasureTextWidth(item, glyph_width) == Round24(Len(item) * glyph_width)

\* .map(measure_text(..).width).fold(0.0, f32::max) over items[i..]
RECURSIVE ContentWidth(_, _, _, _)
ContentWidth(items, glyph_width, i, acc) ==
    IF i > Len(items) THEN acc
    ELSE ContentWidth(items, glyph_width, i + 1,
                      Max(acc, MeasureTextWidth(items[i], glyph_width)))

\* calculate_dimensions: <<width, height>>
CalculateDimensions(l, glyph_width) ==
    LET content_width == ContentWidth(l.items, glyph_width, 1, 0)
        width == IF IsSome(l.width_override)
                 THEN Unwrap(l.width_override)
                 ELSE Round24(content_width + Round24(2 * l.item_padding))
        visible_count == IF IsSome(l.max_visible_items)
                         THEN Unwrap(l.max_visible_items)
                         ELSE Len(l.items)
    IN  <<width,
          Round24(Round24(visible_count * ItemHeight(l)) + Round24(2 * l.item_padding))>>

\* add_item, and add_items as a loop of pushes
AddItemUpdate(l, item) == [l EXCEPT !.items = Append(@, item)]
AddItemsUpdate(l, items) == [l EXCEPT !.items = @ \o items]

\* clear
ClearUpdate(l) ==
    [l EXCEPT !.items = <<>>, !.selected_index = None, !.scroll_offset = 0]

\* Vec::remove(index): the items after it move down by one.
VecRemove(items, index) ==
    [k \in 1..(Len(items) - 1) |-> IF k <= index THEN items[k] ELSE items[k + 1]]

\* remove_item
RemoveItemUpdate(l, index) ==
    IF index < Len(l.items)
    THEN LET items == VecRemove(l.items, index)
             selected_index ==
                 IF IsSome(l.selected_index)
                 THEN LET selected == Unwrap(l.selected_index)
                      IN  IF selected = index \/ selected >= Len(items)
                          THEN None
                          ELSE IF selected > index
                               THEN Some(selected - 1)
                               ELSE l.selected_index
                 ELSE l.selected_index
             scroll_offset ==
                 IF l.scroll_offset > 0 /\ l.scroll_offset >= Len(items)
                 THEN SaturatingSub(Len(items), 1)
                 ELSE l.scroll_offset
         IN  [l EXCEPT !.items = items,
                       !.selected_index = selected_index,
                       !.scroll_offset = scroll_offset]
    ELSE l

\* selected_item
SelectedItem(l) ==
    IF IsSome(l.selected_index) /\ Unwrap(l.selected_index) < Len(l.items)
    THEN Some(l.items[Unwrap(l.selected_index) + 1])
    ELSE None

\* Mutant of SelectItemUpdate: the index is not checked against the length.
SelectItemUnchecked(l, index) ==
    [l EXCEPT !.selected_index = index]

\* select_item
SelectItemUpdate(l, index) ==
    IF IsNone(index) \/ Unwrap(index) < Len(l.items)
    THEN LET idx == Unwrap(index)
             scroll_offset ==
                 IF IsSome(index) /\ IsSome(l.max_visible_items)
                 THEN IF idx < l.scroll_offset
                      THEN idx
                      ELSE IF idx >= l.scroll_offset + Unwrap(l.max_visible_items)
                           THEN SaturatingSub(idx, Unwrap(l.max_visible_items)) + 1
                           ELSE l.scroll_offset
                 ELSE l.scroll_offset
         IN  [l EXCEPT !.selected_index = index, !.scroll_offset = scroll_offset]
    ELSE l

\* The top edge of the list box: y - font_size as f32 + item_padding.
ListTop(l) == Round24(Round24(l.y - l.font_size * Px) + l.item_padding)

\* handle_scroll with mouse_wheel().1 = wheel_movement and the mouse at mouse_pos
HandleScroll(l, wheel_movement, mouse_pos, glyph_width) ==
    IF IsNone(l.max_visible_items) THEN l
    ELSE LET max_visible == Unwrap(l.max_visible_items)
             dims == CalculateDimensions(l, glyph_width)
             list_rect == <<Round24(l.x - l.item_padding),
                            ListTop(l),
                            Round24(dims[1] + (IF l.show_scrollbar
                                               THEN l.scrollbar_width ELSE 0)),
                            dims[2]>>
         IN  IF Len(l.items) <= max_visible THEN l
             ELSE IF wheel_movement # 0 /\ RectHas(list_rect, mouse_pos)
                  THEN IF wheel_movement > 0
                       THEN [l EXCEPT !.scroll_offset = SaturatingSub(@, 1)]
                       ELSE [l EXCEPT !.scroll_offset =
                                 Min(@ + 1, SaturatingSub(Len(l.items), max_visible))]
                  ELSE l

\* handle_scrollbar_interaction with is_mouse_button_down(Left) = down:
\* relative_y = (mouse_y - rect.y) / rect.h and relative_y * max_offset are
\* f32 values, the second one rounded to an index.
HandleScrollbarInteraction(l, down, mouse_pos, glyph_width) ==
    IF ~l.show_scrollbar \/ IsNone(l.max_visible_items) THEN l
    ELSE LET max_visible == Unwrap(l.max_visible_items)
             dims == CalculateDimensions(l, glyph_width)
             scrollbar_rect == <<Round24(l.x + dims[1]), ListTop(l),
                                 l.scrollbar_width, dims[2]>>
             max_offset == SaturatingSub(Len(l.items), max_visible)
             relative_y == F32Div(Round24(mouse_pos[2] - scrollbar_rect[2]),
                                  scrollbar_rect[4])
         IN  IF Len(l.items) <= max_visible THEN l
             ELSE IF down /\ RectHas(scrollbar_rect, mouse_pos)
                  THEN [l EXCEPT !.scroll_offset =
                            Min(RoundAsUsize(F32Times(max_offset, relative_y)), max_offset)]
                  ELSE l

\* The item selection at the end of update, with
\* is_mouse_button_pressed(Left) = pressed.
HandleItemClick(l, pressed, mouse_pos, glyph_width) ==
    LET item_height == ItemHeight(l)
        dims == CalculateDimensions(l, glyph_width)
        list_rect == <<Round24(l.x - l.item_padding),
                       ListTop(l),
                       dims[1],
                       Round24((IF IsSome(l.max_visible_items)
                                THEN Unwrap(l.max_visible_items)
                                ELSE Len(l.items)) * item_height)>>
        relative_y == Round24(mouse_pos[2] - ListTop(l))
        item_index == F32AsUsize(F32Div(relative_y, item_height)) + l.scroll_offset
    IN  IF pressed /\ RectHas(list_rect, mouse_pos) /\ item_index < Len(l.items)
        THEN [l EXCEPT !.selected_index = Some(item_index)]
        ELSE l

\* update: wheel, then scrollbar, then item selection
ListUpdate(l, wheel_movement, down, pressed, mouse_pos, glyph_width) ==
    HandleItemClick(
        HandleScrollbarInteraction(HandleScroll(l, wheel_movement, mouse_pos, glyph_width),
                                   down, mouse_pos, glyph_width),
        pressed, mouse_pos, glyph_width)

\* The slice draw takes: &self.items[self.scroll_offset..end_idx]
VisibleRange(l) ==
    LET visible_count == IF IsSome(l.max_visible_items)
                         THEN Min(Unwrap(l.max_visible_items), Len(l.items))
                         ELSE Len(l.items)
    IN  <<l.scroll_offset, Min(l.scroll_offset + visible_count, Len(l.items))>>

\* --- inputs ---

ItemLists == UNION {[1..n -> ItemLabels] : n \in 0..MaxItems}
VisibleCounts == 0..MaxItems

FontSizes == {16}
ListWidths == {100 * Px}
Spacings == {DefaultSpacing, 3 * Pow2(22)}   \* 1.2, 1.5
Paddings == {5 * Px}
ScrollbarWidths == {10 * Px}

\* The list of a behaviour: ListView::new(&items, 10.0, 25.0, font_size)
\* with .set_width(100.0) chained or not, and
\* .with_max_visible_items(count) or not.
BuiltListViews ==
    {[ListViewNew(items, 10 * Px, 25 * Px, font_size)
          EXCEPT !.width_override = width_override,
                 !.max_visible_items = max_visible_items] :
        items \in ItemLists, font_size \in FontSizes,
        width_override \in {None} \cup {Some(width) : width \in ListWidths},
        max_visible_items \in {None} \cup {Some(count) : count \in VisibleCounts}}

\* Mouse positions, in pixels.  Across: left of the box; in the items of a
\* wide box, which is where the scrollbar of a narrow one is; on the right
\* edge of the scrollbar of a wide box.  Down: on the top edge of the box,
\* and one position per row, which is the bottom edge of the rows above it
\* when a row is 24 pixels high and inside the next row when it is 19.2.
ListMouseXs == {k * Px : k \in {4, 32, 120}}
ListMouseYs == {k * Px : k \in {14} \cup {14 + 24 * j : j \in 1..MaxItems}}

\* The glyph widths of the fonts a frame is drawn with: half the font size
\* and the whole font size.  A list with a width override discards the
\* measurement, one glyph width stands for all.
GlyphWidthsFor(l) ==
    IF IsSome(l.width_override) \/ l.items = <<>>
    THEN {l.font_size * (Px \div 2)}
    ELSE {l.font_size * (Px \div 2), l.font_size * Px}
WheelMovements == {-1, 0, 1}
\* <<is_mouse_button_down(Left), is_mouse_button_pressed(Left)>>
ButtonStates == {<<FALSE, FALSE>>, <<TRUE, FALSE>>, <<TRUE, TRUE>>}
\* <<wheel, <<down, pressed>>>> of a frame.  update handles the wheel first
\* and the button after it, so a frame with both leaves the list as a frame
\* with the wheel followed by a frame with the button does; of those frames
\* one is drawn.
FrameInputs ==
    {f \in WheelMovements \X ButtonStates : f[1] = 0 \/ f[2] = <<FALSE, FALSE>>}
    \cup {<<-1, <<TRUE, TRUE>>>>}

\* --- actions ---

AddItem ==
    /\ IsSome(list)
    /\ Len(Unwrap(list).items) < MaxItems
    /\ \E item \in ItemLabels : list' = Some(AddItemUpdate(Unwrap(list), item))
    /\ UNCHANGED <<call, par, gen, anim, clock, object, button, clicked, pending, other>>

AddItems ==
    /\ IsSome(list)
    /\ \E items \in ItemLists :
          /\ Len(Unwrap(list).items) + Len(items) <= MaxItems
          /\ list' = Some(AddItemsUpdate(Unwrap(list), items))
    /\ UNCHANGED <<call, par, gen, anim, clock, object, button, clicked, pending, other>>

Clear ==
    /\ IsSome(list)
    /\ list' = Some(ClearUpdate(Unwrap(list)))
    /\ UNCHANGED <<call, par, gen, anim, clock, object, button, clicked, pending, other>>

RemoveItem ==
    /\ IsSome(list)
    /\ \E index \in 0..MaxItems : list' = Some(RemoveItemUpdate(Unwrap(list), index))
    /\ UNCHANGED <<call, par, gen, anim, clock, object, button, clicked, pending, other>>

SelectItem ==
    /\ IsSome(list)
    /\ \E index \in {None} \cup {Some(i) : i \in 0..MaxItems} :
          list' = Some(SelectItemUpdate(Unwrap(list), index))
    /\ UNCHANGED <<call, par, gen, anim, clock, object, button, clicked, pending, other>>

\* draw: update runs first.
ListDraw ==
    /\ IsSome(list)
    /\ \E frame \in FrameInputs :
          \E mouse_x \in ListMouseXs, mouse_y \in ListMouseYs,
             glyph_width \in GlyphWidthsFor(Unwrap(list)) :
              list' = Some(ListUpdate(Unwrap(list), frame[1], frame[2][1], frame[2][2],
                                      <<mouse_x, mouse_y>>, glyph_width))
    /\ UNCHANGED <<call, par, gen, anim, clock, object, button, clicked, pending, other>>

WithMaxVisibleItems ==
    /\ IsSome(list)
    /\ \E count \in VisibleCounts :
          list' = Some([Unwrap(list) EXCEPT !.max_visible_items = Some(count)])
    /\ UNCHANGED <<call, par, gen, anim, clock, object, button, clicked, pending, other>>

\* with_scrollbar_settings(show, width, ..)
WithScrollbarSettings ==
    /\ IsSome(list)
    /\ \E show \in BOOLEAN, width \in ScrollbarWidths :
          list' = Some([Unwrap(list) EXCEPT !.show_scrollbar = show,
                                            !.scrollbar_width = width])
    /\ UNCHANGED <<call, par, gen, anim, clock, object, button, clicked, pending, other>>

SetWidth ==
    /\ IsSome(list)
    /\ \E width \in ListWidths :
          list' = Some([Unwrap(list) EXCEPT !.width_override = Some(width)])
    /\ UNCHANGED <<call, par, gen, anim, clock, object, button, clicked, pending, other>>

WithSpacing ==
    /\ IsSome(list)
    /\ \E spacing \in Spacings : list' = Some([Unwrap(list) EXCEPT !.item_spacing = spacing])
    /\ UNCHANGED <<call, par, gen, anim, clock, object, button, clicked, pending, other>>

WithPadding ==
    /\ IsSome(list)
    /\ \E padding \in Paddings : list' = Some([Unwrap(list) EXCEPT !.item_padding = padding])
    /\ UNCHANGED <<call, par, gen, anim, clock, object, button, clicked, pending, other>>

InitList ==
    /\ call = None /\ par = None /\ gen = None /\ clock = 0
    /\ anim = None /\ object = None /\ button = None /\ clicked = None
    /\ pending = NoCall /\ other = None
    /\ list \in {Some(l) : l \in BuiltListViews}

\* The list with its visible count fixed at construction.
NextScroll == \/ AddItem \/ AddItems \/ Clear \/ RemoveItem \/ SelectItem \/ ListDraw
SpecScroll == InitList /\ [][NextScroll]_vars

\* The list with every operation.
NextList == \/ NextScroll \/ WithMaxVisibleItems \/ WithScrollbarSettings
            \/ SetWidth \/ WithSpacing \/ WithPadding
SpecList == InitList /\ [][NextList]_vars

(***************************************************************************)
(* Claims about ListView (SpecList, SpecScroll)                            *)
(***************************************************************************)

TheList == Unwrap(list)

\* C27 as stated: remove_item(i) with i in range clears a selection equal to
\* i, decrements a selection greater than i (the last item included) and
\* keeps a selection less than i; with i out of range nothing changes.
C27_RemoveKeepsSelection ==
    IsSome(list) =>
        \A index \in 0..MaxItems :
            LET after == RemoveItemUpdate(TheList, index)
                selected == TheList.selected_index
            IN  IF index < Len(TheList.items)
                THEN /\ Len(after.items) = Len(TheList.items) - 1
                     /\ IsSome(selected) =>
                            /\ Unwrap(selected) = index => after.selected_index = None
                            /\ Unwrap(selected) > index
                                   => /\ after.selected_index = Some(Unwrap(selected) - 1)
                                      /\ SelectedItem(after) = SelectedItem(TheList)
                            /\ Unwrap(selected) < index
                                   => /\ after.selected_index = selected
                                      /\ SelectedItem(after) = SelectedItem(TheList)
                     /\ IsNone(selected) => after.selected_index = None
                ELSE after = TheList

\* What does hold: as C27, except that a selection on the last item of the
\* list is cleared when an earlier item is removed.
C27_HoldsExceptForLastItem ==
    IsSome(list) =>
        \A index \in 0..MaxItems :
            LET after == RemoveItemUpdate(TheList, index)
                selected == TheList.selected_index
            IN  IF index < Len(TheList.items)
                THEN IsSome(selected) =>
                         /\ (Unwrap(selected) = index \/ Unwrap(selected) = Len(TheList.items) - 1)
                                => after.selected_index = None
                         /\ (Unwrap(selected) > index /\ Unwrap(selected) < Len(TheList.items) - 1)
                                => /\ after.selected_index = Some(Unwrap(selected) - 1)
                                   /\ SelectedItem(after) = SelectedItem(TheList)
                         /\ Unwrap(selected) < index
                                => /\ after.selected_index = selected
                                   /\ SelectedItem(after) = SelectedItem(TheList)
                ELSE after = TheList

\* The largest scroll offset that still fills the box: max(0, len - m).
MaxOffset(l) == SaturatingSub(Len(l.items), Unwrap(l.max_visible_items))

\* C28 as stated: with max_visible_items = Some(m), in every state reached
\* by wheel scrolling, scrollbar dragging, select_item, add_item, add_items,
\* remove_item and clear, scroll_offset <= max(0, items.len() - m).
C28_NeverScrollsPastTheEnd ==
    (IsSome(list) /\ IsSome(TheList.max_visible_items))
        => TheList.scroll_offset <= MaxOffset(TheList)

\* What does hold: a step that does not shorten the list keeps the bound.
C28_HoldsWithoutRemoveItem ==
    [][(IsSome(list) /\ IsSome(TheList.max_visible_items)
            /\ TheList.scroll_offset <= MaxOffset(TheList)
            /\ Len(Unwrap(list').items) >= Len(TheList.items))
          => Unwrap(list').scroll_offset <= MaxOffset(Unwrap(list'))]_vars

\* C29: selected_index is None or a valid index (so selected_item() is Some
\* whenever an item is selected), scroll_offset <= items.len() and the range
\* draw slices is valid; select_item with an index >= items.len() changes
\* neither the selection nor the scroll offset.
C29_IndicesStayInRange ==
    IsSome(list) =>
        /\ IsSome(TheList.selected_index)
               => /\ Unwrap(TheList.selected_index) < Len(TheList.items)
                  /\ IsSome(SelectedItem(TheList))
        /\ TheList.scroll_offset <= Len(TheList.items)
        /\ VisibleRange(TheList)[1] <= VisibleRange(TheList)[2]
        /\ VisibleRange(TheList)[2] <= Len(TheList.items)
        /\ \A index \in Len(TheList.items)..(MaxItems + 1) :
               SelectItemUpdate(TheList, Some(index)) = TheList

\* A scrolled list whose last item is selected, with room for more items.
C29_Witness ==
    /\ IsSome(list)
    /\ TheList.scroll_offset > 0
    /\ Len(TheList.items) < MaxItems
    /\ TheList.selected_index = Some(Len(TheList.items) - 1)

(***************************************************************************)
(* Two AnimatedImages tested against each other, between calls that move, *)
(* resize and step the first one (SpecQuery).                              *)
(***************************************************************************)

\* What check_collision reads of an AnimatedImage through Collidable:
\* pos(), size(), texture_size() and get_mask().  The frames of the sprites
\* below are a whole number of texels wide and high.
AsCollidable(a) ==
    Sprite(<<a.x, a.y>>, <<a.width, a.height>>,
           <<F32AsUsize(TextureSize(a)[1]), F32AsUsize(TextureSize(a)[2])>>,
           GetMask(a))

\* Single images with every pattern of opaque and transparent texels.
PatternSprites ==
    {AnimatedImageNew(image, at[1], at[2], at[3], at[4], 1, 1, TickSec, FALSE, 0) :
        image \in FrameImages(BuiltDim), at \in StartPlaces}

\* The first sprite: a pattern sprite or one of the built sprites (sheet,
\* frame files, GIF, empty) that does not loop.
QuerySprites ==
    PatternSprites
    \cup {a \in BuiltAnimatedImages :
             ~a.loop_animation /\ (a.ctor = "from_gif" \/ a.frame_duration \in {TickSec, DefaultFrameDuration})}

\* The second sprite: a pattern sprite or the GIF of the most frames.
QueryOthers ==
    PatternSprites
    \cup {a \in BuiltAnimatedImages :
             ~a.loop_animation /\ a.ctor = "from_gif" /\ a.total_frames = MaxFrames}

\* let collision = check_collision(&anim, &other, skip_pixels); on either
\* build.  The record keeps what the call read and returned, and whether
\* the call before it read the same.
CollideSprites ==
    /\ IsSome(anim) /\ IsSome(other)
    /\ \E skip_pixels \in 1..MaxStride :
          LET obj1 == AsCollidable(Unwrap(anim))
              obj2 == AsCollidable(Unwrap(other))
          IN  \E result \in CheckCollisionOutcomes(obj1, obj2, skip_pixels) :
                  call' = Some([obj1 |-> obj1, obj2 |-> obj2,
                                skip_pixels |-> skip_pixels,
                                result |-> result,
                                again |-> /\ IsSome(call)
                                          /\ Unwrap(call).obj1 = obj1
                                          /\ Unwrap(call).obj2 = obj2
                                          /\ Unwrap(call).skip_pixels = skip_pixels])
    /\ UNCHANGED <<par, gen, anim, clock, object, button, clicked, list, pending, other>>

InitQuery ==
    /\ call = None /\ par = None /\ gen = None /\ clock = 0
    /\ object = None /\ button = None /\ clicked = None /\ list = None
    /\ pending = NoCall
    /\ anim \in {Some(a) : a \in QuerySprites}
    /\ other \in {Some(a) : a \in QueryOthers}

NextQuery == CollideSprites \/ SetFrame \/ SetPosition \/ SetSize
SpecQuery == InitQuery /\ [][NextQuery]_vars

\* C16: check_collision is a pure query.  A call leaves the position, the
\* display size, the current frame and the masks of both sprites unchanged
\* (and every other field of them), and it keeps no state between calls: a
\* call that reads the same positions, sizes, texture sizes, masks and stride
\* as the call before it returns the same boolean, and neither call faults.
C16_PureQuery ==
    [][CollideSprites =>
          /\ AsCollidable(Unwrap(anim')) = AsCollidable(Unwrap(anim))
          /\ AsCollidable(Unwrap(other')) = AsCollidable(Unwrap(other))
          /\ Unwrap(anim').current_frame = Unwrap(anim).current_frame
          /\ Unwrap(other').current_frame = Unwrap(other).current_frame
          /\ Unwrap(anim').transparency_mask = Unwrap(anim).transparency_mask
          /\ Unwrap(anim').frame_masks = Unwrap(anim).frame_masks
          /\ Unwrap(other').transparency_mask = Unwrap(other).transparency_mask
          /\ Unwrap(other').frame_masks = Unwrap(other).frame_masks
          /\ anim' = anim /\ other' = other
          /\ Unwrap(call').again
                => /\ Unwrap(call').result = Unwrap(call).result
                   /\ ~Unwrap(call').result.panic]_vars

\* The same call made twice in a row on two masked sprites that overlap by
\* more than one sample, some sample opaque in both sprites and some not:
\* the fine phase ran and reported a hit both times, and the first sprite
\* is still as the call read it.
C16_Witness ==
    /\ IsSome(call) /\ IsSome(anim) /\ IsSome(other)
    /\ Unwrap(call).again
    /\ Unwrap(call).result.hit
    /\ IsSome(Unwrap(call).obj1.mask) /\ IsSome(Unwrap(call).obj2.mask)
    /\ Unwrap(call).obj1 = AsCollidable(Unwrap(anim))
    /\ LET c == Unwrap(call)
           ov == Overlap(c.obj1, c.obj2)
       IN  /\ Cardinality(Samples(ov, c.skip_pixels)) > 1
           /\ \E s \in Samples(ov, c.skip_pixels) : ~SampleAt(c.obj1, c.obj2, ov, s[1], s[2]).hit

====
